---- MODULE Spec2Model ----
(***************************************************************************)
(* moneyTales: the quiz pipeline (backend/orchestrator.py), its agents     *)
(* (backend/agents) and the SQLite repository (backend/db/database.py).    *)
(*                                                                         *)
(* A request is followed through the handler one repository or agent call  *)
(* at a time; the repository is shared state.  Percentages are kept as     *)
(* exact fractions num/den (Python computes correct/max*100 in doubles;    *)
(* for quizzes of up to 7 questions the double and the exact value agree   *)
(* on int() and on every threshold comparison the code makes).             *)
(***************************************************************************)
EXTENDS Integers, Sequences, FiniteSets, TLC

VARIABLES
    users,      \* table users: user_id -> row (NoUser when there is no row)
    attempts,   \* table quiz_attempts, in created_at order (oldest first)
    events,     \* table gamification_events, in insertion order
    traces,     \* table trace_logs: a set of rows, trace_id is the key
    reqs,       \* per caller: the call in progress and, once done, its result
    nextRid,    \* stands for uuid.uuid4(): the next fresh request id
    env,        \* what the collaborators may do: "reliable", "faulty", "chaos",
                \* and whether the name json resolves: "bound", "bound_faulty"
    arg,        \* input of the pure function under check (function harnesses),
                \* or the object under check (the similarity index)
    ret,        \* its result
    returned    \* the evaluate_quiz results the callers have received

vars == <<users, attempts, events, traces, reqs, nextRid, env, arg, ret, returned>>

-----------------------------------------------------------------------------
(* Bounds of the model *)

MaxReq == 1         \* request ids handed out in one behaviour
MaxAttempts == 2    \* rows of quiz_attempts written directly by clients
MaxQ == 1           \* questions / answers in one submitted quiz
MaxHist == 2        \* length of the histories given to the recommender harness
MaxEvalQ == 3       \* questions / answers given to the evaluator harness
MaxPoints == 1600   \* point totals given to the level harness
MaxLevel == 3       \* current levels given to the level harness
MaxDocs == 2        \* chunks held by the similarity index
MaxK == 3           \* top_k given to search
MaxChunks == 6      \* windows chunk_text may append before the model stops following it

Users == {"u1", "u2"}
Slots == {"w1", "w2"}
ScoreSamples == {1, 45, 85}
RegAges == {9}
HarnessAges == {5, 9, 16}
OptionIdx == {0, 1}

(* Program constants *)

max_retries == 3            \* orchestrator.py:67
default_age == 10           \* orchestrator.py:85
history_limit == 10         \* database.py:258
reward_history_limit == 100 \* orchestrator.py:289
points_per_quiz == 10
points_per_perfect == 50
points_per_badge == 100
level_threshold == 500
num_questions == 5          \* orchestrator.py:190
answered_limit == 30        \* quiz_agent.py:86
min_chunk_len == 50         \* chunker.py:41

-----------------------------------------------------------------------------
(* Small helpers *)

\* the empty string, as a question text
EmptyText == 0

Min(a, b) == IF a < b THEN a ELSE b

RECURSIVE SelectSeqBy(_, _)
\* the rows of s that belong to user u, order kept
SelectSeqBy(s, u) ==
    IF s = <<>> THEN <<>>
    ELSE IF Head(s).user_id = u THEN <<Head(s)>> \o SelectSeqBy(Tail(s), u)
         ELSE SelectSeqBy(Tail(s), u)

Reverse(s) == [i \in 1..Len(s) |-> s[Len(s) + 1 - i]]

Take(s, n) == SubSeq(s, 1, Min(n, Len(s)))

SeqsUpTo(S, n) == UNION {[1..k -> S] : k \in 0..n}

-----------------------------------------------------------------------------
(* Rows: backend/db/models.py *)

NoUser ==
    [user_id |-> "", name |-> "", age |-> 0, hobbies |-> "",
     level |-> 0, points |-> 0, badges |-> <<>>]

Found(u) == u.user_id # ""

\* dataclass User: level, points and badges take their defaults
User(user_id, name, age, hobbies) ==
    [user_id |-> user_id, name |-> name, age |-> age, hobbies |-> hobbies,
     level |-> 1, points |-> 0, badges |-> <<>>]

QuizAttempt(user_id, quiz_id, score, max_score, correct_answers, responses) ==
    [user_id |-> user_id, quiz_id |-> quiz_id, score |-> score, max_score |-> max_score,
     correct_answers |-> correct_answers, responses |-> responses]

GamificationEvent(user_id, event_type, points_awarded) ==
    [user_id |-> user_id, event_type |-> event_type, points_awarded |-> points_awarded]

TraceLog(request_id, step, agent_name, status, error) ==
    [trace_id |-> <<request_id, step>>, request_id |-> request_id,
     agent_name |-> agent_name, step_number |-> step, status |-> status,
     error_message |-> error]

-----------------------------------------------------------------------------
(* Repository: backend/db/database.py.  Every method catches its own        *)
(* exceptions and answers None / False / [] instead.                        *)

\* INSERT INTO users: the primary key rejects a second row for the user
create_user(U, user) ==
    IF Found(U[user.user_id]) THEN U ELSE [U EXCEPT ![user.user_id] = user]

get_user(U, user_id) == U[user_id]

\* an update that stores the delta instead of adding it
update_user_points_overwrite(U, user_id, delta) ==
    IF Found(U[user_id]) THEN [U EXCEPT ![user_id].points = delta] ELSE U

\* UPDATE users SET points = points + ? (no row: nothing is updated)
update_user_points(U, user_id, delta) ==
    IF Found(U[user_id]) THEN [U EXCEPT ![user_id].points = @ + delta] ELSE U

\* an update that leaves the stored level as it is
update_user_level_ignored(U, user_id, new_level) == U

update_user_level(U, user_id, new_level) ==
    IF Found(U[user_id]) THEN [U EXCEPT ![user_id].level = new_level] ELSE U

InSeq(x, s) == \E i \in 1..Len(s) : s[i] = x

add_badge(U, user_id, badge) ==
    IF Found(U[user_id]) /\ ~InSeq(badge, U[user_id].badges)
    THEN [U EXCEPT ![user_id].badges = Append(@, badge)]
    ELSE U

create_quiz_attempt(A, attempt) == Append(A, attempt)

\* the same query with ORDER BY created_at ASC
get_user_quiz_history_asc(A, user_id, limit) ==
    Take(SelectSeqBy(A, user_id), limit)

\* a query without the WHERE clause: the attempts of every user
get_user_quiz_history_all(A, user_id, limit) ==
    Take(Reverse(A), limit)

\* SELECT ... WHERE user_id = ? ORDER BY created_at DESC LIMIT ?
get_user_quiz_history(A, user_id, limit) ==
    Take(Reverse(SelectSeqBy(A, user_id)), limit)

RECURSIVE CorrectResponses(_)
\* the responses with is_correct of the rows, row by row, in stored order
CorrectResponses(rows) ==
    IF rows = <<>> THEN <<>>
    ELSE SelectSeq(Head(rows).responses, LAMBDA r : r.is_correct)
         \o CorrectResponses(Tail(rows))

RECURSIVE UniqueQuestions(_, _)
\* the loop over the responses: a text is kept if it is non-empty and new
UniqueQuestions(responses, seen_questions) ==
    IF responses = <<>> THEN <<>>
    ELSE LET response == Head(responses)
             question_text == response.question
         IN  IF question_text # EmptyText /\ question_text \notin seen_questions
             THEN <<[question |-> question_text,
                     correct_answer |-> response.correct_answer,
                     options |-> response.options]>>
                  \o UniqueQuestions(Tail(responses), seen_questions \cup {question_text})
             ELSE UniqueQuestions(Tail(responses), seen_questions)

\* SELECT responses ... ORDER BY created_at DESC LIMIT limit * 5, then the
\* correctly answered questions, one per text, the first limit of them
get_correctly_answered_questions(A, user_id, limit) ==
    LET rows == Take(Reverse(SelectSeqBy(A, user_id)), limit * 5)
    IN  Take(UniqueQuestions(CorrectResponses(rows), {}), limit)

\* INSERT OR IGNORE INTO trace_logs: a second row with the same trace_id is dropped
create_trace_log(T, log) ==
    IF \E t \in T : t.trace_id = log.trace_id THEN T ELSE T \cup {log}

RECURSIVE SortByStep(_)
SortByStep(S) ==
    IF S = {} THEN <<>>
    ELSE LET t == CHOOSE x \in S : \A y \in S : x.step_number <= y.step_number
         IN  <<t>> \o SortByStep(S \ {t})

\* SELECT * FROM trace_logs WHERE request_id = ? ORDER BY step_number ASC
get_trace_logs(T, request_id) ==
    SortByStep({t \in T : t.request_id = request_id})

-----------------------------------------------------------------------------
(* Fractions: a Python float that is the quotient of two small integers *)

Frac(n, d) == [num |-> n, den |-> d]
FracLT(f, n, d) == f.num * d < n * f.den      \* f < n/d
FracGE(f, n, d) == ~FracLT(f, n, d)           \* f >= n/d
FracEQ(f, n, d) == f.num * d = n * f.den      \* f == n/d
FracInt(f) == f.num \div f.den                \* int(f), f >= 0

-----------------------------------------------------------------------------
(* Difficulty Recommender: backend/agents/difficulty_agent.py *)

_age_based_difficulty(age) == "medium"

\* quiz_history: sequence of scores, most recent first
_recommend_difficulty(quiz_history, age) ==
    IF quiz_history = <<>> THEN _age_based_difficulty(age)
    ELSE LET most_recent_score == quiz_history[1]
             normalized_score ==
                 IF most_recent_score > 1 THEN Frac(most_recent_score, 100)
                 ELSE Frac(most_recent_score, 1)
         IN  IF FracLT(normalized_score, 1, 2) THEN "easy"
             ELSE IF FracLT(normalized_score, 4, 5) THEN "medium"
             ELSE "hard"

-----------------------------------------------------------------------------
(* Questions and answers *)

Options4 == <<"opt0", "opt1", "opt2", "opt3">>

\* the i-th question of a quiz whose correct option is c
Question(i, c) == [question |-> i, options |-> Options4, correct_answer |-> c]

\* quizzes of n questions, one for every choice of the correct options
QuizzesOfLen(n) == {[i \in 1..n |-> Question(i, c[i])] : c \in [1..n -> OptionIdx]}

QuizzesUpTo(n) == UNION {QuizzesOfLen(k) : k \in 0..n}

-----------------------------------------------------------------------------
(* Question Generator: backend/agents/quiz_agent.py.  A question text is a   *)
(* number: 0 is the empty text, and 1000 + t is a text that differs from t   *)
(* in letter case or outer blanks only.                                      *)

\* str.lower().strip()
LowerStrip(text) == IF text >= 1000 THEN text - 1000 ELSE text

\* dict.get(key, ""): the value under the key, or the empty text
GetText(d, key) ==
    IF key \in DOMAIN d THEN d[key] ELSE EmptyText

\* _get_easy_bank, _get_medium_bank, _get_hard_bank: eight questions each,
\* every one with four options and the correct one first
QuestionBank(difficulty) ==
    LET base == IF difficulty = "easy" THEN 100
                ELSE IF difficulty = "hard" THEN 300 ELSE 200
    IN  [i \in 1..8 |-> Question(base + i, 0)]

TemplateTexts == {b + i : b \in {100, 200, 300}, i \in 1..8}

\* the index of the first occurrence, as list.index
IndexOf(options, x) ==
    CHOOSE i \in 1..Len(options) :
        options[i] = x /\ \A j \in 1..(i - 1) : options[j] # x

\* _shuffle_options with random.shuffle producing the order p
_shuffle_options(question, p) ==
    LET correct_option == question.options[question.correct_answer + 1]
        options == [i \in 1..Len(question.options) |-> question.options[p[i]]]
    IN  [question EXCEPT !.options = options,
                         !.correct_answer = IndexOf(options, correct_option) - 1]

_filter_answered_questions(questions, correctly_answered) ==
    IF correctly_answered = <<>> THEN questions
    ELSE LET answered_texts == {LowerStrip(GetText(correctly_answered[i], "question_text")) :
                                   i \in 1..Len(correctly_answered)}
             filtered == SelectSeq(questions, LAMBDA q :
                             LET q_text == LowerStrip(GetText(q, "question"))
                             IN  q_text # EmptyText /\ q_text \notin answered_texts)
         IN  IF filtered # <<>> THEN filtered ELSE questions

\* the validation loop of _generate_with_gemini over the reply's questions
Validated(questions, n) ==
    LET considered == Take(questions, n)
        valid == SelectSeq(considered, LAMBDA q :
                     GetText(q, "question") # EmptyText /\ Len(q.options) >= 4)
    IN  Take([i \in 1..Len(valid) |->
                 [valid[i] EXCEPT !.correct_answer = @ % 4]], n)

\* shuffles[i] is the order random.shuffle gives the options of the i-th
\* question of the bank in use
_generate_from_templates(difficulty, n, correctly_answered, shuffles) ==
    LET bank == QuestionBank(difficulty)
        correctly_answered_questions ==
            {GetText(correctly_answered[i], "question") : i \in 1..Len(correctly_answered)}
        filtered_bank == SelectSeq(bank, LAMBDA q :
                             GetText(q, "question") \notin correctly_answered_questions)
        question_bank == IF correctly_answered # <<>> /\ filtered_bank # <<>>
                         THEN filtered_bank ELSE bank
    IN  Take([i \in 1..Len(question_bank) |->
                 _shuffle_options(question_bank[i], shuffles[i])], n)

\* what a generator call does: kind is "absent" (no generator object, or
\* Gemini not configured), "raise", or "questions" with the list it returns
Generated(questions) == [kind |-> "questions", questions |-> questions]
NotGenerated(kind) == [kind |-> kind, questions |-> <<>>]

\* QuizAgent.execute: PDF generator, then Gemini, then the templates.  The
\* result's source and questions.
QuizAgentExecute(pdf, gemini, shuffles, difficulty, n, correctly_answered) ==
    IF pdf.kind = "questions" /\ pdf.questions # <<>>
    THEN [source |-> "PDF",
          questions |-> _filter_answered_questions(pdf.questions, correctly_answered)]
    ELSE IF gemini.kind # "absent" /\ gemini.kind # "raise"
    THEN [source |-> "Gemini", questions |-> Validated(gemini.questions, n)]
    ELSE [source |-> "templates",
          questions |-> _generate_from_templates(difficulty, n, correctly_answered, shuffles)]

-----------------------------------------------------------------------------
(* Answer Evaluator: backend/agents/evaluator_agent.py *)

RECURSIVE CountCorrect(_, _, _)
\* the loop of _calculate_score from position i on
CountCorrect(questions, answers, i) ==
    IF i > Len(questions) THEN 0
    ELSE (IF i <= Len(answers) /\ answers[i] = questions[i].correct_answer
          THEN 1 ELSE 0)
         + CountCorrect(questions, answers, i + 1)

_calculate_score(questions, answers) ==
    LET correct_count == CountCorrect(questions, answers, 1)
        max_score == Len(questions)
        percentage == IF max_score > 0 THEN Frac(correct_count * 100, max_score)
                      ELSE Frac(0, 1)
    IN  [correct_count |-> correct_count, max_score |-> max_score,
         score |-> FracInt(percentage), percentage |-> percentage]

\* what execute() returns; an error result carries no score fields
EvalError(msg) ==
    [status |-> "error", error |-> msg, correct_count |-> 0, max_score |-> 0,
     score |-> 0, percentage |-> Frac(0, 1)]

EvaluatorExecute(questions, answers) ==
    IF questions = <<>> \/ answers = <<>>
    THEN EvalError("Missing questions or answers")
    ELSE LET score_info == _calculate_score(questions, answers)
         IN  [status |-> "success", error |-> "",
              correct_count |-> score_info.correct_count,
              max_score |-> score_info.max_score,
              score |-> score_info.score, percentage |-> score_info.percentage]

-----------------------------------------------------------------------------
(* Reward Engine: backend/agents/gamification_agent.py *)

\* a point policy whose score bonuses add up
_calculate_points_stacked(event_type, quiz_score) ==
    IF event_type = "quiz_completed"
    THEN points_per_quiz
         + (IF FracEQ(quiz_score, 100, 1) THEN points_per_perfect ELSE 0)
         + (IF FracGE(quiz_score, 80, 1) THEN 20 ELSE 0)
         + (IF FracGE(quiz_score, 60, 1) THEN 10 ELSE 0)
    ELSE IF event_type = "badge_earned" THEN points_per_badge
    ELSE IF event_type = "daily_streak" THEN 50
    ELSE 0

_calculate_points(event_type, quiz_score) ==
    IF event_type = "quiz_completed"
    THEN points_per_quiz
         + (IF FracEQ(quiz_score, 100, 1) THEN points_per_perfect
            ELSE IF FracGE(quiz_score, 80, 1) THEN 20
            ELSE IF FracGE(quiz_score, 60, 1) THEN 10
            ELSE 0)
    ELSE IF event_type = "badge_earned" THEN points_per_badge
    ELSE IF event_type = "daily_streak" THEN 50
    ELSE 0

\* a badge check that grants the first-quiz badge at every count
_check_badges_every_quiz(event_type, quizzes_completed, quiz_score) ==
    IF event_type # "quiz_completed" THEN <<>>
    ELSE (IF quizzes_completed >= 1 THEN <<"First Quiz Completed">> ELSE <<>>)
         \o (IF FracEQ(quiz_score, 100, 1) THEN <<"Perfect Score">> ELSE <<>>)

\* the names of the badges, in the order the code appends them
_check_badges(event_type, quizzes_completed, quiz_score) ==
    IF event_type # "quiz_completed" THEN <<>>
    ELSE (IF quizzes_completed = 1 THEN <<"First Quiz Completed">> ELSE <<>>)
         \o (IF FracEQ(quiz_score, 100, 1) THEN <<"Perfect Score">> ELSE <<>>)
         \o (IF quizzes_completed = 5 THEN <<"5-Quiz Streak">> ELSE <<>>)
         \o (IF quizzes_completed = 10 THEN <<"Curious Mind">> ELSE <<>>)
         \o (IF quizzes_completed = 20 THEN <<"Financial Pro">> ELSE <<>>)

\* a level policy that recomputes the level from the total alone
_check_level_up_recomputed(total_points, current_level) ==
    LET new_level == (total_points \div level_threshold) + 1
    IN  [new_level |-> new_level, leveled_up |-> new_level > current_level]

_check_level_up(total_points, current_level) ==
    LET new_level == IF total_points >= level_threshold * current_level
                     THEN (total_points \div level_threshold) + 1
                     ELSE current_level
    IN  [new_level |-> new_level, leveled_up |-> new_level > current_level]

\* progress towards the next level; the percentage is kept exact
_get_level_progress(total_points, current_level) ==
    LET current_level_threshold == level_threshold * (current_level - 1)
        next_level_threshold == level_threshold * current_level
        points_in_level == total_points - current_level_threshold
        points_needed == next_level_threshold - current_level_threshold
    IN  [current_level |-> current_level,
         points_in_level |-> IF points_in_level > 0 THEN points_in_level ELSE 0,
         points_needed |-> IF points_needed > 0 THEN points_needed ELSE 0,
         progress_percentage |-> IF points_needed > 0
                                 THEN Frac(points_in_level * 100, points_needed)
                                 ELSE Frac(0, 1)]

RewardError ==
    [status |-> "error", points_earned |-> 0, badges_earned |-> <<>>,
     current_level |-> 0, leveled_up |-> FALSE]

GamificationExecute(event_type, quiz_score, quizzes_completed, current_points, current_level) ==
    LET points_earned == _calculate_points(event_type, quiz_score)
        lv == _check_level_up(current_points + points_earned, current_level)
    IN  [status |-> "success", points_earned |-> points_earned,
         badges_earned |-> _check_badges(event_type, quizzes_completed, quiz_score),
         current_level |-> lv.new_level, leveled_up |-> lv.leveled_up]

-----------------------------------------------------------------------------
(* What the collaborators may do at a call.                                 *)
(*   reliable: every call succeeds and the agents are the repository's own  *)
(*   faulty:   an agent may answer an error result or raise; a Database     *)
(*             method may fail (it then answers None / False / [])          *)
(*   chaos:    as faulty; a repository call may also raise, and a trace     *)
(*             write may fail                                               *)

(*   bound, bound_faulty: the name json resolves in orchestrator.py, so that *)
(*             the statements after line 343 run; the collaborators are as  *)
(*             in reliable, or with a Database whose methods may fail       *)

(*   lossy:    as reliable, but a trace-record write may fail               *)
(*   concurrent: as reliable, with two calls for different users in         *)
(*             progress at once                                             *)

LossyEnvs == {"lossy", "bound_lossy"}

ConcurrentEnvs == {"concurrent", "bound_concurrent"}

\* two callers at once, for any users, every write a step of its own
RacingEnvs == {"racing", "bound_racing"}

BoundEnvs ==
    {"bound", "bound_faulty", "bound_lossy", "bound_concurrent", "bound_racing"}

AgentOutcomes ==
    IF env \in {"faulty", "chaos"} THEN {"ok", "error", "raise"} ELSE {"ok"}

DbOutcomes ==
    IF env \in {"faulty", "bound_faulty"} THEN {"ok", "fail"}
    ELSE IF env = "chaos" THEN {"ok", "fail", "raise"}
    ELSE {"ok"}

TraceOutcomes == IF env \in {"chaos"} \cup LossyEnvs THEN {"ok", "fail"} ELSE {"ok"}

(* upstream:   the agents and the Database work, and what lies behind the   *)
(*             agents may fail: retrieval, the PDF generator, Gemini        *)

\* RAGAgent.execute answers an error result when retrieval fails
RagOutcomes == IF env = "upstream" THEN {"ok", "error"} ELSE AgentOutcomes

\* what the PDF generator hands back when it works
QuizAgentQuestions == <<Question(1, 0), Question(2, 1)>>

\* a Gemini reply: an answered question, and one with five options and a key of 6
GeminiQuestions ==
    <<Question(1, 0),
      [question |-> 3, options |-> Options4 \o <<"opt4">>, correct_answer |-> 6]>>

PdfOutcomes ==
    IF env = "upstream"
    THEN {NotGenerated("absent"), NotGenerated("raise"), Generated(<<>>),
          Generated(QuizAgentQuestions)}
    ELSE {Generated(QuizAgentQuestions)}

GeminiOutcomes ==
    IF env = "upstream"
    THEN {NotGenerated("absent"), NotGenerated("raise"), Generated(<<>>),
          Generated(<<Question(EmptyText, 0)>>), Generated(GeminiQuestions)}
    ELSE {NotGenerated("absent")}

Unshuffled == <<1, 2, 3, 4>>

\* orders random.shuffle may give four options
ShuffleSamples == {Unshuffled, <<2, 3, 4, 1>>, <<4, 3, 1, 2>>}

\* one order per question of the bank; the questions after the first
\* num_questions do not reach the result, and random.shuffle is called on
\* the template path only
Shuffles(pdf, gemini) ==
    IF env = "upstream" /\ ~(pdf.kind = "questions" /\ pdf.questions # <<>>)
                        /\ gemini.kind \in {"absent", "raise"}
    THEN {[i \in 1..8 |-> IF i <= num_questions THEN f[i] ELSE Unshuffled] :
             f \in [1..num_questions -> ShuffleSamples]}
    ELSE {[i \in 1..8 |-> Unshuffled]}

(* Scope of a behaviour.  With faults every call branches on its outcome, so *)
(* the faulty environments follow one request over a repository holding at   *)
(* most one earlier attempt.                                                 *)

RequestLimit ==
    IF env = "reliable" THEN MaxReq
    ELSE IF env = "bound" THEN MaxReq + 1
    ELSE IF env \in ConcurrentEnvs \cup RacingEnvs THEN Cardinality(Slots)
    ELSE 1

AttemptLimit == IF env = "reliable" THEN MaxAttempts ELSE 1

ClientScores == IF env = "reliable" THEN ScoreSamples ELSE {45}

-----------------------------------------------------------------------------
(* Pipeline Orchestrator: backend/orchestrator.py *)

NoEval == EvalError("")

\* what QuizAgent.execute was given and did, kept for the properties
NoGeneration ==
    [pdf |-> NotGenerated("absent"), gemini |-> NotGenerated("absent"),
     source |-> "", answered |-> <<>>]

\* the repository as a call finds it, kept for the properties
NoSnapshot == [users |-> [u \in Users |-> NoUser], attempts |-> <<>>]

NoStats == [level |-> 0, points |-> 0, badges |-> <<>>, quizzes_completed |-> 0]

Idle ==
    [op |-> "none", pc |-> "idle", request_id |-> 0, step |-> 0,
     user_id |-> "", user |-> NoUser, reads |-> 0, created |-> FALSE,
     difficulty |-> "", questions |-> <<>>, answers |-> <<>>,
     generation |-> NoGeneration, before |-> NoSnapshot,
     eval |-> NoEval, reward |-> RewardError, invoked |-> {},
     status |-> "", error |-> "", trace_steps |-> 0,
     logs |-> <<>>, stats |-> NoStats, pending |-> <<>>]

\* the name json resolves at line 343.  orchestrator.py imports logging, uuid,
\* typing and datetime only, so in the program as it stands (reliable, faulty,
\* chaos) it does not; the bound environments show the statements behind it
JsonImported == env \in BoundEnvs

\* the exception classes the model raises; all derive from Exception
ExceptionKinds == {"ValueError", "NameError", "Exception"}

\* a handler that catches ValueError only
ExceptValueErrorOnly(kind) == kind = "ValueError"

\* `except Exception as e` of the four public operations
ExceptException(kind) == kind \in ExceptionKinds

\* _log_trace: the row is written unless create_trace_log fails; a failure
\* (False, or an exception) is logged and swallowed
_log_trace(T, request_id, step, agent_name, status, error, outcome) ==
    IF outcome = "ok"
    THEN create_trace_log(T, TraceLog(request_id, step, agent_name, status, error))
    ELSE T

\* an except branch that answers success
OnExceptionAsSuccess(q, kind, msg) ==
    [q EXCEPT !.pc = "done", !.status = "success", !.error = msg,
              !.trace_steps = q.step]

\* the except branch of generate_quiz / evaluate_quiz: the error result
OnException(q, kind, msg) ==
    IF ExceptException(kind)
    THEN [q EXCEPT !.pc = "done", !.status = "error", !.error = msg,
                   !.trace_steps = q.step]
    ELSE [q EXCEPT !.pc = "done", !.status = "raised", !.error = msg]

\* an except branch that logs the failure under the failing step's own number
AbortAtSameStep(s, q, T, kind, msg, t) ==
    /\ reqs' = [reqs EXCEPT ![s] = OnException(q, kind, msg)]
    /\ traces' = IF ExceptException(kind)
                 THEN _log_trace(T, q.request_id, q.step, "Orchestrator",
                                 "failed", msg, t)
                 ELSE T

\* an exception of class kind leaves the try block at step q.step
Abort(s, q, T, kind, msg, t) ==
    /\ reqs' = [reqs EXCEPT ![s] = OnException(q, kind, msg)]
    /\ traces' = IF ExceptException(kind)
                 THEN _log_trace(T, q.request_id, q.step + 1, "Orchestrator",
                                 "failed", msg, t)
                 ELSE T

\* a step whose failed trace write reaches the handler's except branch
ContinueUnlessTraceLost(s, q, T, agent_name, t) ==
    IF t = "ok"
    THEN /\ reqs' = [reqs EXCEPT ![s] = q]
         /\ traces' = _log_trace(T, q.request_id, q.step, agent_name, "completed", "", t)
    ELSE Abort(s, q, T, "Exception", "trace", t)

\* the step ends: its "completed" row is written and the handler goes on
Continue(s, q, T, agent_name, t) ==
    /\ reqs' = [reqs EXCEPT ![s] = q]
    /\ traces' = _log_trace(T, q.request_id, q.step, agent_name, "completed", "", t)

NoCallInProgress == \A s \in Slots : reqs[s].pc = "idle"

\* a caller may enter the Orchestrator: one call at a time through w1, or in
\* the concurrent environments a second call, for another user, beside it
MayCall(s, u) ==
    IF env \in RacingEnvs THEN reqs[s].pc = "idle"
    ELSE IF env \in ConcurrentEnvs
    THEN /\ reqs[s].pc = "idle"
         /\ \A r \in Slots : reqs[r].pc # "idle" => reqs[r].user_id # u
    ELSE s = "w1" /\ NoCallInProgress

\* the other clients act between calls only where a call is compared with
\* its undisturbed run
ClientMayAct == env \in LossyEnvs \cup ConcurrentEnvs => NoCallInProgress

Snapshot ==
    IF env \in LossyEnvs \cup ConcurrentEnvs
    THEN [users |-> users, attempts |-> attempts]
    ELSE NoSnapshot

(* ---- generate_quiz ---- *)

StartGenerate(s, u) ==
    /\ MayCall(s, u)
    /\ nextRid <= RequestLimit
    /\ \E t0, t1 \in TraceOutcomes :
         traces' = _log_trace(
                     _log_trace(traces, nextRid, 0, "Orchestrator", "pending", "", t0),
                     nextRid, 1, "Database", "in_progress", "", t1)
    /\ reqs' = [reqs EXCEPT ![s] =
                  [Idle EXCEPT !.op = "generate", !.pc = "g_fetch",
                               !.request_id = nextRid, !.step = 1, !.user_id = u,
                               !.before = Snapshot]]
    /\ nextRid' = nextRid + 1
    /\ UNCHANGED <<users, attempts, events, env, arg, ret, returned>>

\* a lookup that gives up after the first miss
NextFetchPcNoRetry(reads) == "g_create"

\* after a read that found no user: sleep and read again, or leave the loop
NextFetchPc(reads) == IF reads < max_retries THEN "g_fetch" ELSE "g_create"

\* one pass of the retry loop: get_user, then break, sleep or fall through
GenFetch(s) ==
    LET q == reqs[s] IN
    /\ q.pc = "g_fetch"
    /\ \E o \in DbOutcomes, t \in TraceOutcomes :
         IF o = "raise" THEN Abort(s, q, traces, "Exception", "repository", t)
         ELSE LET user == IF o = "ok" THEN get_user(users, q.user_id) ELSE NoUser
                  q1 == [q EXCEPT !.reads = @ + 1]
              IN  IF Found(user)
                  THEN Continue(s, [q1 EXCEPT !.user = user, !.pc = "g_rag"],
                                traces, "Database", t)
                  ELSE /\ reqs' = [reqs EXCEPT ![s] =
                                     [q1 EXCEPT !.pc = NextFetchPc(q1.reads)]]
                       /\ traces' = traces
    /\ UNCHANGED <<users, attempts, events, nextRid, env, arg, ret, returned>>

\* the fallback: create_user(User(user_id, user_id, 10, "learning"))
GenCreate(s) ==
    LET q == reqs[s] IN
    /\ q.pc = "g_create"
    /\ \E o \in DbOutcomes, t \in TraceOutcomes :
         IF o = "raise"
         THEN /\ Abort(s, q, traces, "ValueError", "not found", t)
              /\ users' = users
         ELSE /\ users' = IF o = "ok"
                          THEN create_user(users, User(q.user_id, q.user_id,
                                                       default_age, "learning"))
                          ELSE users
              /\ reqs' = [reqs EXCEPT ![s] = [q EXCEPT !.pc = "g_verify",
                                                       !.created = TRUE]]
              /\ traces' = traces
    /\ UNCHANGED <<attempts, events, nextRid, env, arg, ret, returned>>

\* the read after the fallback; no user still: ValueError
GenVerify(s) ==
    LET q == reqs[s] IN
    /\ q.pc = "g_verify"
    /\ \E o \in DbOutcomes, t \in TraceOutcomes :
         LET user == IF o = "ok" THEN get_user(users, q.user_id) ELSE NoUser
         IN  IF o # "raise" /\ Found(user)
             THEN Continue(s, [q EXCEPT !.user = user, !.pc = "g_rag"],
                           traces, "Database", t)
             ELSE Abort(s, q, traces, "ValueError", "not found", t)
    /\ UNCHANGED <<users, attempts, events, nextRid, env, arg, ret, returned>>

\* step 2: RAGAgent.execute(query, top_k = 3)
GenRag(s) ==
    LET q == reqs[s] IN
    /\ q.pc = "g_rag"
    /\ \E o \in RagOutcomes, t1, t2 \in TraceOutcomes :
         LET q1 == [q EXCEPT !.step = 2, !.invoked = @ \cup {"RAGAgent"}]
             T1 == _log_trace(traces, q.request_id, 2, "RAGAgent", "in_progress", "", t1)
         IN  IF o = "raise" THEN Abort(s, q1, T1, "Exception", "RAGAgent", t2)
             ELSE Continue(s, [q1 EXCEPT !.pc = "g_difficulty"], T1, "RAGAgent", t2)
    /\ UNCHANGED <<users, attempts, events, nextRid, env, arg, ret, returned>>

\* the scores of a history, most recent first
Scores(history) == [i \in 1..Len(history) |-> history[i].score]

\* step 3: get_user_quiz_history, DifficultyAgent.execute
GenDifficulty(s) ==
    LET q == reqs[s] IN
    /\ q.pc = "g_difficulty"
    /\ \E d \in DbOutcomes, o \in AgentOutcomes, t1, t2 \in TraceOutcomes :
         LET q1 == [q EXCEPT !.step = 3, !.invoked = @ \cup {"DifficultyAgent"}]
             T1 == _log_trace(traces, q.request_id, 3, "DifficultyAgent",
                              "in_progress", "", t1)
             quiz_history == IF d = "ok"
                             THEN get_user_quiz_history(attempts, q.user_id, history_limit)
                             ELSE <<>>
             difficulty == IF o = "ok"
                           THEN _recommend_difficulty(Scores(quiz_history), q.user.age)
                           ELSE "medium"
         IN  IF d = "raise" THEN Abort(s, [q EXCEPT !.step = 3], T1, "Exception",
                                       "repository", t2)
             ELSE IF o = "raise" THEN Abort(s, q1, T1, "Exception", "DifficultyAgent", t2)
             ELSE Continue(s, [q1 EXCEPT !.pc = "g_story", !.difficulty = difficulty],
                           T1, "DifficultyAgent", t2)
    /\ UNCHANGED <<users, attempts, events, nextRid, env, arg, ret, returned>>

\* step 4: StoryAgent.execute
GenStory(s) ==
    LET q == reqs[s] IN
    /\ q.pc = "g_story"
    /\ \E o \in AgentOutcomes, t1, t2 \in TraceOutcomes :
         LET q1 == [q EXCEPT !.step = 4, !.invoked = @ \cup {"StoryAgent"}]
             T1 == _log_trace(traces, q.request_id, 4, "StoryAgent", "in_progress", "", t1)
         IN  IF o = "raise" THEN Abort(s, q1, T1, "Exception", "StoryAgent", t2)
             ELSE Continue(s, [q1 EXCEPT !.pc = "g_quiz"], T1, "StoryAgent", t2)
    /\ UNCHANGED <<users, attempts, events, nextRid, env, arg, ret, returned>>

\* step 5: QuizAgent.execute; step 6: the final record and the result
GenQuiz(s) ==
    LET q == reqs[s] IN
    /\ q.pc = "g_quiz"
    /\ \E o \in AgentOutcomes, t1, t2, t3 \in TraceOutcomes,
          pdf \in PdfOutcomes, gemini \in GeminiOutcomes :
       \E shuffles \in Shuffles(pdf, gemini) :
         LET q1 == [q EXCEPT !.step = 5, !.invoked = @ \cup {"QuizAgent"}]
             correctly_answered ==
                 get_correctly_answered_questions(attempts, q.user_id, answered_limit)
             quiz_result == QuizAgentExecute(pdf, gemini, shuffles, q.difficulty,
                                             num_questions, correctly_answered)
             T1 == _log_trace(traces, q.request_id, 5, "QuizAgent", "in_progress", "", t1)
             T2 == _log_trace(T1, q.request_id, 5, "QuizAgent", "completed", "", t2)
             questions == IF o = "ok" THEN quiz_result.questions ELSE <<>>
             generation == IF o = "ok"
                           THEN [pdf |-> pdf, gemini |-> gemini,
                                 source |-> quiz_result.source,
                                 answered |-> correctly_answered]
                           ELSE NoGeneration
         IN  IF o = "raise" THEN Abort(s, q1, T1, "Exception", "QuizAgent", t2)
             ELSE Continue(s, [q1 EXCEPT !.step = 6, !.pc = "done",
                                         !.questions = questions,
                                         !.generation = generation,
                                         !.status = "success", !.trace_steps = 6],
                           T2, "Orchestrator", t3)
    /\ UNCHANGED <<users, attempts, events, nextRid, env, arg, ret, returned>>

\* the caller takes the result
\* what evaluate_quiz hands back: the success result carries the rewards
Result(q) ==
    [request_id |-> q.request_id, user_id |-> q.user_id, status |-> q.status,
     points_earned |-> IF q.status = "success" THEN q.reward.points_earned ELSE 0,
     badges_earned |-> IF q.status = "success" THEN q.reward.badges_earned ELSE <<>>]

Return(s) ==
    /\ reqs[s].pc = "done"
    /\ reqs' = [reqs EXCEPT ![s] = Idle]
    /\ returned' = IF reqs[s].op = "evaluate"
                   THEN returned \cup {Result(reqs[s])}
                   ELSE returned
    /\ UNCHANGED <<users, attempts, events, traces, nextRid, env, arg, ret>>

(* ---- evaluate_quiz ---- *)

\* the quizzes and answer lists a client submits
SubmittedQuizzes == {[i \in 1..n |-> Question(i, 0)] : n \in 0..MaxQ}
SubmittedAnswers == SeqsUpTo(OptionIdx, MaxQ)

StartEvaluate(s, u, questions, answers) ==
    /\ MayCall(s, u)
    /\ nextRid <= RequestLimit
    /\ \E t0 \in TraceOutcomes :
         traces' = _log_trace(traces, nextRid, 0, "Orchestrator", "pending", "", t0)
    /\ reqs' = [reqs EXCEPT ![s] =
                  [Idle EXCEPT !.op = "evaluate", !.pc = "e_fetch",
                               !.request_id = nextRid, !.user_id = u,
                               !.questions = questions, !.answers = answers,
                               !.before = Snapshot]]
    /\ nextRid' = nextRid + 1
    /\ UNCHANGED <<users, attempts, events, env, arg, ret, returned>>

\* a handler without the user check
EvalUserMissingNever(user) == FALSE

\* `if not user: raise ValueError`
EvalUserMissing(user) == ~Found(user)

\* step 1: get_user, once; no user: ValueError
EvalFetch(s) ==
    LET q == reqs[s] IN
    /\ q.pc = "e_fetch"
    /\ \E o \in DbOutcomes, t \in TraceOutcomes :
         LET user == IF o = "ok" THEN get_user(users, q.user_id) ELSE NoUser
             q1 == [q EXCEPT !.step = 1, !.reads = @ + 1]
         IN  IF o = "raise" THEN Abort(s, q1, traces, "Exception", "repository", t)
             ELSE IF EvalUserMissing(user)
             THEN Abort(s, q1, traces, "ValueError", "User not found", t)
             ELSE /\ reqs' = [reqs EXCEPT ![s] = [q1 EXCEPT !.user = user,
                                                            !.pc = "e_evaluate"]]
                  /\ traces' = traces
    /\ UNCHANGED <<users, attempts, events, nextRid, env, arg, ret, returned>>

\* step 2: EvaluatorAgent.execute; the result's status is not looked at
EvalEvaluate(s) ==
    LET q == reqs[s] IN
    /\ q.pc = "e_evaluate"
    /\ \E o \in AgentOutcomes, t1, t2 \in TraceOutcomes :
         LET q1 == [q EXCEPT !.step = 2, !.invoked = @ \cup {"EvaluatorAgent"}]
             T1 == _log_trace(traces, q.request_id, 2, "EvaluatorAgent",
                              "in_progress", "", t1)
             eval_result == IF o = "ok" THEN EvaluatorExecute(q.questions, q.answers)
                            ELSE EvalError("agent")
         IN  IF o = "raise" THEN Abort(s, q1, T1, "Exception", "EvaluatorAgent", t2)
             ELSE Continue(s, [q1 EXCEPT !.pc = "e_reward", !.eval = eval_result],
                           T1, "EvaluatorAgent", t2)
    /\ UNCHANGED <<users, attempts, events, nextRid, env, arg, ret, returned>>

\* step 3: get_user_quiz_history(limit = 100), GamificationAgent.execute
EvalReward(s) ==
    LET q == reqs[s] IN
    /\ q.pc = "e_reward"
    /\ \E d \in DbOutcomes, o \in AgentOutcomes, t1, t2 \in TraceOutcomes :
         LET q1 == [q EXCEPT !.step = 3, !.invoked = @ \cup {"GamificationAgent"}]
             T1 == _log_trace(traces, q.request_id, 3, "GamificationAgent",
                              "in_progress", "", t1)
             quiz_history == IF d = "ok"
                             THEN get_user_quiz_history(attempts, q.user_id,
                                                        reward_history_limit)
                             ELSE <<>>
             gamification_result ==
                 IF o = "ok"
                 THEN GamificationExecute("quiz_completed", q.eval.percentage,
                                          Len(quiz_history) + 1,
                                          q.user.points, q.user.level)
                 ELSE [RewardError EXCEPT !.current_level = q.user.level]
         IN  IF d = "raise" THEN Abort(s, [q EXCEPT !.step = 3], T1, "Exception",
                                       "repository", t2)
             ELSE IF o = "raise"
             THEN Abort(s, q1, T1, "Exception", "GamificationAgent", t2)
             ELSE Continue(s, [q1 EXCEPT !.pc = "e_persist",
                                         !.reward = gamification_result],
                           T1, "GamificationAgent", t2)
    /\ UNCHANGED <<users, attempts, events, nextRid, env, arg, ret, returned>>

\* one entry of responses_list
Response(question, answers, i) ==
    LET user_answer_idx == IF i <= Len(answers) THEN answers[i] ELSE -1
        correct_idx == question.correct_answer
        answered == user_answer_idx >= 0 /\ user_answer_idx < Len(question.options)
        keyed == answered /\ correct_idx >= 0 /\ correct_idx < Len(question.options)
    IN  [question |-> question.question,
         user_answer |-> IF answered THEN question.options[user_answer_idx + 1] ELSE "",
         correct_answer |-> IF keyed THEN question.options[correct_idx + 1] ELSE "",
         is_correct |-> keyed /\ user_answer_idx = correct_idx,
         options |-> question.options]

ResponsesList(questions, answers) ==
    [i \in 1..Len(questions) |-> Response(questions[i], answers, i)]

RECURSIVE AddBadges(_, _, _)
AddBadges(U, user_id, badges) ==
    IF badges = <<>> THEN U
    ELSE AddBadges(add_badge(U, user_id, Head(badges)), user_id, Tail(badges))

\* step 4: responses_list, json.dumps, create_quiz_attempt, update_user_points,
\* update_user_level, add_badge; step 5: the final record and the result
EvalPersist(s) ==
    LET q == reqs[s] IN
    /\ q.pc = "e_persist"
    /\ \E d1, d2, d3, d4 \in DbOutcomes \ {"raise"}, t1, t2, t3 \in TraceOutcomes :
         LET q1 == [q EXCEPT !.step = 4]
             T1 == _log_trace(traces, q.request_id, 4, "Database", "in_progress", "", t1)
             T2 == _log_trace(T1, q.request_id, 4, "Database", "completed", "", t2)
             quiz_attempt == QuizAttempt(q.user_id, q.request_id, FracInt(q.eval.percentage),
                                         Len(q.questions), q.eval.correct_count,
                                         ResponsesList(q.questions, q.answers))
             U1 == IF d2 = "ok"
                   THEN update_user_points(users, q.user_id, q.reward.points_earned)
                   ELSE users
             U2 == IF d3 = "ok"
                   THEN update_user_level(U1, q.user_id, q.reward.current_level)
                   ELSE U1
         IN  IF ~JsonImported
             THEN /\ Abort(s, q1, T1, "NameError", "name 'json' is not defined", t2)
                  /\ UNCHANGED <<users, attempts>>
             ELSE /\ attempts' = IF d1 = "ok"
                                 THEN create_quiz_attempt(attempts, quiz_attempt)
                                 ELSE attempts
                  /\ users' = IF d4 = "ok"
                              THEN AddBadges(U2, q.user_id, q.reward.badges_earned)
                              ELSE U2
                  /\ Continue(s, [q1 EXCEPT !.step = 5, !.pc = "done",
                                            !.status = "success", !.trace_steps = 5],
                              T2, "Orchestrator", t3)
    /\ UNCHANGED <<events, nextRid, env, arg, ret, returned>>

(* ---- a call on its own: the handler run from the repository (U, A) it  ---- *)
(* ---- finds, every collaborator working and every write succeeding      ---- *)

\* what a finished call hands back
Outcome(q) ==
    [status |-> q.status, error |-> q.error, trace_steps |-> q.trace_steps,
     user |-> q.user, difficulty |-> q.difficulty, questions |-> q.questions,
     eval |-> q.eval, reward |-> q.reward]

\* the trace rows of a call: one per step, the first written under its number
StepRows(request_id, agents) ==
    {TraceLog(request_id, i - 1, agents[i][1], agents[i][2], agents[i][3]) :
        i \in 1..Len(agents)}

generate_quiz(U, A, request_id, user_id) ==
    LET U1 == IF Found(get_user(U, user_id)) THEN U
              ELSE create_user(U, User(user_id, user_id, default_age, "learning"))
        user == get_user(U1, user_id)
        quiz_history == get_user_quiz_history(A, user_id, history_limit)
        difficulty == _recommend_difficulty(Scores(quiz_history), user.age)
        quiz_result ==
            QuizAgentExecute(Generated(QuizAgentQuestions), NotGenerated("absent"),
                             [i \in 1..8 |-> Unshuffled], difficulty, num_questions,
                             get_correctly_answered_questions(A, user_id, answered_limit))
    IN  [result |-> [status |-> "success", error |-> "", trace_steps |-> 6,
                     user |-> user, difficulty |-> difficulty,
                     questions |-> quiz_result.questions,
                     eval |-> NoEval, reward |-> RewardError],
         users |-> U1, attempts |-> A,
         traces |-> StepRows(request_id,
                       <<<<"Orchestrator", "pending", "">>,
                         <<"Database", "in_progress", "">>,
                         <<"RAGAgent", "in_progress", "">>,
                         <<"DifficultyAgent", "in_progress", "">>,
                         <<"StoryAgent", "in_progress", "">>,
                         <<"QuizAgent", "in_progress", "">>,
                         <<"Orchestrator", "completed", "">>>>)]

evaluate_quiz(U, A, request_id, user_id, questions, answers) ==
    LET user == get_user(U, user_id)
        eval_result == EvaluatorExecute(questions, answers)
        quiz_history == get_user_quiz_history(A, user_id, reward_history_limit)
        gamification_result ==
            GamificationExecute("quiz_completed", eval_result.percentage,
                                Len(quiz_history) + 1, user.points, user.level)
        quiz_attempt == QuizAttempt(user_id, request_id, FracInt(eval_result.percentage),
                                    Len(questions), eval_result.correct_count,
                                    ResponsesList(questions, answers))
        U1 == update_user_points(U, user_id, gamification_result.points_earned)
        U2 == update_user_level(U1, user_id, gamification_result.current_level)
        steps == <<<<"Orchestrator", "pending", "">>,
                   <<"", "", "">>,
                   <<"EvaluatorAgent", "in_progress", "">>,
                   <<"GamificationAgent", "in_progress", "">>,
                   <<"Database", "in_progress", "">>>>
        base == [status |-> "error", error |-> "", trace_steps |-> 0,
                 user |-> user, difficulty |-> "", questions |-> questions,
                 eval |-> eval_result, reward |-> gamification_result]
    IN  IF ~Found(user)
        THEN [result |-> [base EXCEPT !.error = "User not found", !.trace_steps = 1,
                                      !.eval = NoEval, !.reward = RewardError],
              users |-> U, attempts |-> A,
              traces |-> {TraceLog(request_id, 0, "Orchestrator", "pending", ""),
                          TraceLog(request_id, 2, "Orchestrator", "failed",
                                   "User not found")}]
        ELSE IF ~JsonImported
        THEN [result |-> [base EXCEPT !.error = "name 'json' is not defined",
                                      !.trace_steps = 4],
              users |-> U, attempts |-> A,
              traces |-> (StepRows(request_id, steps)
                            \ {TraceLog(request_id, 1, "", "", "")})
                         \cup {TraceLog(request_id, 5, "Orchestrator", "failed",
                                        "name 'json' is not defined")}]
        ELSE [result |-> [base EXCEPT !.status = "success", !.trace_steps = 5],
              users |-> AddBadges(U2, user_id, gamification_result.badges_earned),
              attempts |-> create_quiz_attempt(A, quiz_attempt),
              traces |-> (StepRows(request_id, steps)
                            \ {TraceLog(request_id, 1, "", "", "")})
                         \cup {TraceLog(request_id, 5, "Orchestrator", "completed", "")}]

\* the call of the finished request q, on its own from the repository it found
OnItsOwn(q) ==
    IF q.op = "generate"
    THEN generate_quiz(q.before.users, q.before.attempts, q.request_id, q.user_id)
    ELSE evaluate_quiz(q.before.users, q.before.attempts, q.request_id, q.user_id,
                       q.questions, q.answers)

(* ---- get_user_stats, get_trace_logs ---- *)

GetUserStats(s, u) ==
    /\ s = "w1" /\ NoCallInProgress
    /\ \E o, d \in DbOutcomes :
         LET user == IF o = "ok" THEN get_user(users, u) ELSE NoUser
             quiz_history == IF d = "ok"
                             THEN get_user_quiz_history(attempts, u, history_limit)
                             ELSE <<>>
             q == [Idle EXCEPT !.op = "stats", !.user_id = u, !.pc = "done"]
         IN  reqs' = [reqs EXCEPT ![s] =
               IF o = "raise" \/ (Found(user) /\ d = "raise")
               THEN OnException(q, "Exception", "repository")
               ELSE IF ~Found(user)
               THEN [q EXCEPT !.status = "error", !.error = "User not found"]
               ELSE [q EXCEPT !.status = "success", !.user = user,
                              !.stats = [level |-> user.level, points |-> user.points,
                                         badges |-> user.badges,
                                         quizzes_completed |-> Len(quiz_history)]]]
    /\ UNCHANGED <<users, attempts, events, traces, nextRid, env, arg, ret, returned>>

GetTraceLogs(s, request_id) ==
    /\ s = "w1" /\ NoCallInProgress
    /\ \E o \in DbOutcomes :
         LET q == [Idle EXCEPT !.op = "traces", !.request_id = request_id, !.pc = "done"]
         IN  reqs' = [reqs EXCEPT ![s] =
               IF o = "raise" THEN OnException(q, "Exception", "repository")
               ELSE [q EXCEPT !.status = "success",
                              !.logs = IF o = "ok"
                                       THEN get_trace_logs(traces, request_id)
                                       ELSE <<>>]]
    /\ UNCHANGED <<users, attempts, events, traces, nextRid, env, arg, ret, returned>>

(* ---- the other clients of the repository ---- *)

\* registration (routers/auth_router.py): create_user with the registrant's profile
Register(u, age) ==
    /\ ClientMayAct
    /\ ~Found(users[u])
    /\ \E o \in DbOutcomes \ {"raise"} :
         users' = IF o = "ok" THEN create_user(users, User(u, "registrant", age, "games"))
                  ELSE users
    /\ UNCHANGED <<attempts, events, traces, reqs, nextRid, env, arg, ret, returned>>

\* a quiz attempt written through Database.create_quiz_attempt itself
RecordAttempt(u, score) ==
    /\ ClientMayAct
    /\ Len(attempts) < AttemptLimit
    /\ attempts' = create_quiz_attempt(attempts, QuizAttempt(u, 0, score, 5, 0, <<>>))
    /\ UNCHANGED <<users, events, traces, reqs, nextRid, env, arg, ret, returned>>

-----------------------------------------------------------------------------
(* Specifications *)

NoArg == [fn |-> "none"]
NoRet == [done |-> FALSE]

InitWith(e, U, A) ==
    /\ users = U
    /\ attempts = A
    /\ events = <<>>
    /\ traces = {}
    /\ reqs = [s \in Slots |-> Idle]
    /\ nextRid = 1
    /\ env = e
    /\ arg = NoArg
    /\ ret = NoRet
    /\ returned = {}

\* a repository with empty tables
InitEnv(e) == InitWith(e, [u \in Users |-> NoUser], <<>>)

Init == InitEnv("reliable")

InitFault == InitEnv("faulty")

InitChaos == InitEnv("chaos")

\* The repository file outlives the process (init_db creates the tables only
\* if they do not exist).  What eight perfect one-question quizzes of u1 leave
\* behind when json resolves: 8 x 60 points, level 1, the badges of quiz 1 and 5.
VeteranAttempts ==
    [i \in 1..8 |->
        QuizAttempt("u1", 0, 100, 1, 1, ResponsesList(<<Question(1, 0)>>, <<0>>))]

VeteranUsers ==
    [u \in Users |->
        IF u = "u1"
        THEN [User("u1", "registrant", 9, "games") EXCEPT
                 !.points = 480,
                 !.badges = <<"First Quiz Completed", "Perfect Score", "5-Quiz Streak">>]
        ELSE NoUser]

\* the program as it stands, or with json resolving
InitBound ==
    \/ \E e \in {"reliable", "bound"} : InitEnv(e)
    \/ InitWith("bound", VeteranUsers, VeteranAttempts)

InitBoundFault == \E e \in {"faulty", "bound_faulty"} : InitEnv(e)

\* a quiz of u1 with four questions answered correctly: one the PDF generator
\* and Gemini hand out again, and one of each template bank
AnsweredAttempts ==
    <<QuizAttempt("u1", 0, 80, 5, 4,
          ResponsesList(<<Question(1, 0), Question(101, 0), Question(201, 0),
                          Question(301, 0), Question(202, 0)>>,
                        <<0, 0, 0, 0, 1>>))>>

InitUpstream ==
    \/ InitEnv("upstream")
    \/ InitWith("upstream", VeteranUsers, AnsweredAttempts)

Next ==
    \/ \E s \in Slots, u \in Users : StartGenerate(s, u)
    \/ \E s \in Slots : GenFetch(s)
    \/ \E s \in Slots : GenCreate(s)
    \/ \E s \in Slots : GenVerify(s)
    \/ \E s \in Slots : GenRag(s)
    \/ \E s \in Slots : GenDifficulty(s)
    \/ \E s \in Slots : GenStory(s)
    \/ \E s \in Slots : GenQuiz(s)
    \/ \E s \in Slots, u \in Users, qs \in SubmittedQuizzes, an \in SubmittedAnswers :
         StartEvaluate(s, u, qs, an)
    \/ \E s \in Slots : EvalFetch(s)
    \/ \E s \in Slots : EvalEvaluate(s)
    \/ \E s \in Slots : EvalReward(s)
    \/ \E s \in Slots : EvalPersist(s)
    \/ \E s \in Slots, u \in Users : GetUserStats(s, u)
    \/ \E s \in Slots, r \in 1..MaxReq : GetTraceLogs(s, r)
    \/ \E s \in Slots : Return(s)
    \/ \E u \in Users, age \in RegAges : Register(u, age)
    \/ \E u \in Users, sc \in ClientScores : RecordAttempt(u, sc)

Spec == Init /\ [][Next]_vars

(* ---- function harnesses: one call of a pure function on a drawn input ---- *)

PercentScores == 0..100

\* histories, most recent first: any percentage on top of sampled older scores
Histories ==
    {<<>>} \cup {<<sc>> \o older : sc \in PercentScores,
                                  older \in SeqsUpTo(ScoreSamples, MaxHist - 1)}

InitDifficulty ==
    /\ users = [u \in Users |-> NoUser]
    /\ attempts = <<>>
    /\ events = <<>>
    /\ traces = {}
    /\ reqs = [s \in Slots |-> Idle]
    /\ nextRid = 1
    /\ env = "reliable"
    /\ arg \in {[fn |-> "difficulty", quiz_history |-> h, age |-> a] :
                   h \in Histories, a \in HarnessAges}
    /\ ret = NoRet
    /\ returned = {}

\* DifficultyAgent.execute: recommended_difficulty
Recommend ==
    /\ arg.fn = "difficulty"
    /\ ~ret.done
    /\ ret' = [done |-> TRUE,
               value |-> _recommend_difficulty(arg.quiz_history, arg.age)]
    /\ UNCHANGED <<users, attempts, events, traces, reqs, nextRid, env, arg, returned>>

NextDifficulty == Recommend

SpecDifficulty == InitDifficulty /\ [][NextDifficulty]_vars

InitEvaluator ==
    /\ users = [u \in Users |-> NoUser]
    /\ attempts = <<>>
    /\ events = <<>>
    /\ traces = {}
    /\ reqs = [s \in Slots |-> Idle]
    /\ nextRid = 1
    /\ env = "reliable"
    /\ arg \in {[fn |-> "evaluate", questions |-> qs, answers |-> an] :
                   qs \in QuizzesUpTo(MaxEvalQ), an \in SeqsUpTo(OptionIdx, MaxEvalQ)}
    /\ ret = NoRet
    /\ returned = {}

\* EvaluatorAgent.execute
Evaluate ==
    /\ arg.fn = "evaluate"
    /\ ~ret.done
    /\ ret' = [done |-> TRUE, value |-> EvaluatorExecute(arg.questions, arg.answers)]
    /\ UNCHANGED <<users, attempts, events, traces, reqs, nextRid, env, arg, returned>>

NextEvaluator == Evaluate

SpecEvaluator == InitEvaluator /\ [][NextEvaluator]_vars

EventTypes == {"quiz_completed", "badge_earned", "daily_streak", "login"}

\* the percentages the evaluator can produce, and every whole percentage
Percentages ==
    {Frac(p, 1) : p \in PercentScores}
      \cup {Frac(100 * c, n) : c \in 0..MaxEvalQ, n \in 1..MaxEvalQ}

InitReward ==
    /\ users = [u \in Users |-> NoUser]
    /\ attempts = <<>>
    /\ events = <<>>
    /\ traces = {}
    /\ reqs = [s \in Slots |-> Idle]
    /\ nextRid = 1
    /\ env = "reliable"
    /\ arg \in {[fn |-> "points", event_type |-> e, quiz_score |-> p] :
                   e \in EventTypes, p \in Percentages}
              \cup {[fn |-> f, total_points |-> t, current_level |-> l] :
                      f \in {"level", "progress"}, t \in 0..MaxPoints,
                      l \in 1..MaxLevel + 1}
    /\ ret = NoRet
    /\ returned = {}

\* GamificationAgent._calculate_points
CalculatePoints ==
    /\ arg.fn = "points"
    /\ ~ret.done
    /\ ret' = [done |-> TRUE, value |-> _calculate_points(arg.event_type, arg.quiz_score)]
    /\ UNCHANGED <<users, attempts, events, traces, reqs, nextRid, env, arg, returned>>

\* GamificationAgent._check_level_up
CheckLevelUp ==
    /\ arg.fn = "level"
    /\ ~ret.done
    /\ ret' = [done |-> TRUE,
               value |-> _check_level_up(arg.total_points, arg.current_level)]
    /\ UNCHANGED <<users, attempts, events, traces, reqs, nextRid, env, arg, returned>>

\* GamificationAgent._get_level_progress
GetLevelProgress ==
    /\ arg.fn = "progress"
    /\ ~ret.done
    /\ ret' = [done |-> TRUE,
               value |-> _get_level_progress(arg.total_points, arg.current_level)]
    /\ UNCHANGED <<users, attempts, events, traces, reqs, nextRid, env, arg, returned>>

NextReward == CalculatePoints \/ CheckLevelUp \/ GetLevelProgress

SpecReward == InitReward /\ [][NextReward]_vars

SpecFault == InitFault /\ [][Next]_vars

SpecChaos == InitChaos /\ [][Next]_vars

SpecBound == InitBound /\ [][Next]_vars

SpecBoundFault == InitBoundFault /\ [][Next]_vars

SpecUpstream == InitUpstream /\ [][Next]_vars

\* trace writes may fail; the program as it stands, or with json resolving
InitLossy ==
    \/ \E e \in LossyEnvs : InitEnv(e)
    \/ InitWith("bound_lossy", VeteranUsers, VeteranAttempts)

SpecLossy == InitLossy /\ [][Next]_vars

\* two callers at once; the program as it stands, or with json resolving
InitConcurrent ==
    \/ \E e \in ConcurrentEnvs : InitEnv(e)
    \/ InitWith("bound_concurrent", VeteranUsers, VeteranAttempts)

SpecConcurrent == InitConcurrent /\ [][Next]_vars

-----------------------------------------------------------------------------
(* evaluate_quiz write by write.  Every Database method opens a connection  *)
(* of its own and commits before it returns, so between two statements of   *)
(* one call the statements of another call may run.  Step 4 of the handler  *)
(* is taken here one Database call at a time.                               *)

\* step 4 up to create_quiz_attempt: the trace row, responses_list,
\* json.dumps, the QuizAttempt and its insert
PersistAttempt(s) ==
    LET q == reqs[s] IN
    /\ q.pc = "e_persist"
    /\ \E d1 \in DbOutcomes \ {"raise"}, t1, t2 \in TraceOutcomes :
         LET q1 == [q EXCEPT !.step = 4]
             T1 == _log_trace(traces, q.request_id, 4, "Database", "in_progress", "", t1)
             quiz_attempt == QuizAttempt(q.user_id, q.request_id, FracInt(q.eval.percentage),
                                         Len(q.questions), q.eval.correct_count,
                                         ResponsesList(q.questions, q.answers))
         IN  IF ~JsonImported
             THEN /\ Abort(s, q1, T1, "NameError", "name 'json' is not defined", t2)
                  /\ UNCHANGED attempts
             ELSE /\ attempts' = IF d1 = "ok"
                                 THEN create_quiz_attempt(attempts, quiz_attempt)
                                 ELSE attempts
                  /\ reqs' = [reqs EXCEPT ![s] = [q1 EXCEPT !.pc = "e_points"]]
                  /\ traces' = T1
    /\ UNCHANGED <<users, events, nextRid, env, arg, ret, returned>>

\* self.database.update_user_points(user_id, points_earned)
PersistPoints(s) ==
    LET q == reqs[s] IN
    /\ q.pc = "e_points"
    /\ \E d2 \in DbOutcomes \ {"raise"} :
         users' = IF d2 = "ok"
                  THEN update_user_points(users, q.user_id, q.reward.points_earned)
                  ELSE users
    /\ reqs' = [reqs EXCEPT ![s].pc = "e_level"]
    /\ UNCHANGED <<attempts, events, traces, nextRid, env, arg, ret, returned>>

\* self.database.update_user_level(user_id, new_level)
PersistLevel(s) ==
    LET q == reqs[s] IN
    /\ q.pc = "e_level"
    /\ \E d3 \in DbOutcomes \ {"raise"} :
         users' = IF d3 = "ok"
                  THEN update_user_level(users, q.user_id, q.reward.current_level)
                  ELSE users
    /\ reqs' = [reqs EXCEPT ![s].pc = "e_badges",
                            ![s].pending = q.reward.badges_earned]
    /\ UNCHANGED <<attempts, events, traces, nextRid, env, arg, ret, returned>>

\* one turn of `for badge in badges_earned`
PersistBadge(s) ==
    LET q == reqs[s] IN
    /\ q.pc = "e_badges"
    /\ q.pending # <<>>
    /\ \E d4 \in DbOutcomes \ {"raise"} :
         users' = IF d4 = "ok"
                  THEN add_badge(users, q.user_id, Head(q.pending))
                  ELSE users
    /\ reqs' = [reqs EXCEPT ![s].pending = Tail(q.pending)]
    /\ UNCHANGED <<attempts, events, traces, nextRid, env, arg, ret, returned>>

\* the loop is over: the step's "completed" row, step 5, the final record
PersistDone(s) ==
    LET q == reqs[s] IN
    /\ q.pc = "e_badges"
    /\ q.pending = <<>>
    /\ \E t2, t3 \in TraceOutcomes :
         Continue(s, [q EXCEPT !.step = 5, !.pc = "done", !.status = "success",
                               !.trace_steps = 5],
                  _log_trace(traces, q.request_id, 4, "Database", "completed", "", t2),
                  "Orchestrator", t3)
    /\ UNCHANGED <<users, attempts, events, nextRid, env, arg, ret, returned>>

\* two submissions at once; the program as it stands, or with json resolving
InitRacing == \E e \in RacingEnvs : InitWith(e, VeteranUsers, VeteranAttempts)

NextRacing ==
    \/ \E s \in Slots, u \in Users, qs \in SubmittedQuizzes, an \in SubmittedAnswers :
         StartEvaluate(s, u, qs, an)
    \/ \E s \in Slots : EvalFetch(s)
    \/ \E s \in Slots : EvalEvaluate(s)
    \/ \E s \in Slots : EvalReward(s)
    \/ \E s \in Slots : PersistAttempt(s)
    \/ \E s \in Slots : PersistPoints(s)
    \/ \E s \in Slots : PersistLevel(s)
    \/ \E s \in Slots : PersistBadge(s)
    \/ \E s \in Slots : PersistDone(s)
    \/ \E s \in Slots : Return(s)

SpecRacing == InitRacing /\ [][NextRacing]_vars

-----------------------------------------------------------------------------
(* Similarity Index: backend/services/vectorstore.py.  A text is taken for  *)
(* what _simple_embedding sees of it: how often each term of the vocabulary *)
(* occurs in it, for a vocabulary of two terms.  A similarity is kept as    *)
(* the exact square of the cosine, a fraction; the counts are not negative, *)
(* so scores are ordered as their squares are.                              *)

Dot(a, b) == a[1] * b[1] + a[2] * b[2]

\* the term counts; the vector the code keeps is counts / sqrt(norm2), or the
\* zero vector
_simple_embedding(text) == [counts |-> text, norm2 |-> Dot(text, text)]

_cosine_similarity(vec1, vec2) ==
    IF vec1.norm2 = 0 \/ vec2.norm2 = 0 THEN Frac(0, 1)
    ELSE Frac(Dot(vec1.counts, vec2.counts) * Dot(vec1.counts, vec2.counts),
              vec1.norm2 * vec2.norm2)

ScoreLess(a, b) == a.num * b.den < b.num * a.den

\* a dict as Python keeps it: the items in insertion order
DictHas(d, k) == \E i \in 1..Len(d) : d[i].key = k

DictGet(d, k) == d[CHOOSE i \in 1..Len(d) : d[i].key = k].value

\* d[k] = v: a key already there keeps its place
DictSet(d, k, v) ==
    IF DictHas(d, k)
    THEN [i \in 1..Len(d) |-> IF d[i].key = k THEN [key |-> k, value |-> v] ELSE d[i]]
    ELSE Append(d, [key |-> k, value |-> v])

EmptyIndex == [vectors |-> <<>>, metadata |-> <<>>]

RECURSIVE add_documents(_, _)
\* the loop of add_documents over well-formed chunks
add_documents(index, chunks) ==
    IF chunks = <<>> THEN index
    ELSE LET chunk == Head(chunks)
             embedding == _simple_embedding(chunk.content)
         IN  add_documents(
                 [vectors |-> DictSet(index.vectors, chunk.id, embedding),
                  metadata |-> DictSet(index.metadata, chunk.id,
                                       [content |-> chunk.content,
                                        source |-> chunk.source])],
                 Tail(chunks))

RECURSIVE InsertByScore(_, _)
\* a sort that lets the later of two equal items come first
InsertByScoreUnstable(x, sorted) ==
    IF sorted = <<>> THEN <<x>>
    ELSE IF ~ScoreLess(x.score, Head(sorted).score) THEN <<x>> \o sorted
    ELSE <<Head(sorted)>> \o InsertByScore(x, Tail(sorted))

\* x goes behind every item that scores at least as high
InsertByScore(x, sorted) ==
    IF sorted = <<>> THEN <<x>>
    ELSE IF ScoreLess(Head(sorted).score, x.score) THEN <<x>> \o sorted
    ELSE <<Head(sorted)>> \o InsertByScore(x, Tail(sorted))

RECURSIVE SortedByScore(_, _)
\* sorted(items, key = score, reverse = True): stable, so items of equal score
\* keep the order they came in
SortedByScore(items, done) ==
    IF items = <<>> THEN done
    ELSE SortedByScore(Tail(items), InsertByScore(Head(items), done))

\* s[:k]
SliceTo(s, k) ==
    IF k >= 0 THEN Take(s, k)
    ELSE SubSeq(s, 1, IF Len(s) + k > 0 THEN Len(s) + k ELSE 0)

search(index, query, top_k) ==
    IF index.vectors = <<>> THEN <<>>
    ELSE LET query_embedding == _simple_embedding(query)
             scores == [i \in 1..Len(index.vectors) |->
                           [id |-> index.vectors[i].key,
                            score |-> _cosine_similarity(query_embedding,
                                                         index.vectors[i].value)]]
             top_docs == SliceTo(SortedByScore(scores, <<>>), top_k)
         IN  [i \in 1..Len(top_docs) |->
                 [id |-> top_docs[i].id,
                  content |-> DictGet(index.metadata, top_docs[i].id).content,
                  source |-> DictGet(index.metadata, top_docs[i].id).source,
                  similarity_score |-> top_docs[i].score]]

\* a dump that writes the items of a dict last to first
PickleDumpReversed(index) ==
    [vectors |-> [i \in 1..Len(index.vectors) |->
                     <<index.vectors[Len(index.vectors) + 1 - i].key,
                       index.vectors[Len(index.vectors) + 1 - i].value>>],
     metadata |-> [i \in 1..Len(index.metadata) |->
                      <<index.metadata[i].key, index.metadata[i].value>>]]

\* pickle.dump of the two dicts: the items of each, in order
PickleDump(index) ==
    [vectors |-> [i \in 1..Len(index.vectors) |->
                     <<index.vectors[i].key, index.vectors[i].value>>],
     metadata |-> [i \in 1..Len(index.metadata) |->
                      <<index.metadata[i].key, index.metadata[i].value>>]]

\* pickle.load: the dicts rebuilt item by item
PickleLoad(data) ==
    [vectors |-> [i \in 1..Len(data.vectors) |->
                     [key |-> data.vectors[i][1], value |-> data.vectors[i][2]]],
     metadata |-> [i \in 1..Len(data.metadata) |->
                      [key |-> data.metadata[i][1], value |-> data.metadata[i][2]]]]

(* ---- the index as an object: add_documents, search, save, load ---- *)

ChunkIds == {"c1", "c2", "c3"}

\* term counts of the texts added and asked for: no term, one term once or
\* twice, the other term, both terms
Texts == {<<0, 0>>, <<1, 0>>, <<2, 0>>, <<0, 1>>, <<1, 1>>}

Chunk(id, content) == [id |-> id, content |-> content, source |-> "doc.txt",
                       chunk_index |-> 0]

NoFile == [exists |-> FALSE, data |-> PickleDump(EmptyIndex)]

InitIndex ==
    /\ users = [u \in Users |-> NoUser]
    /\ attempts = <<>>
    /\ events = <<>>
    /\ traces = {}
    /\ reqs = [s \in Slots |-> Idle]
    /\ nextRid = 1
    /\ env = "reliable"
    /\ arg = [fn |-> "index", index |-> EmptyIndex, file |-> NoFile,
              at_save |-> EmptyIndex, reloaded |-> FALSE]
    /\ ret = NoRet
    /\ returned = {}

AddDocuments(chunks) ==
    /\ arg.fn = "index"
    /\ Len(add_documents(arg.index, chunks).vectors) <= MaxDocs
    /\ arg' = [arg EXCEPT !.index = add_documents(arg.index, chunks),
                          !.reloaded = FALSE]
    /\ ret' = NoRet
    /\ UNCHANGED <<users, attempts, events, traces, reqs, nextRid, env, returned>>

\* search; the result is kept with the call and the index it was made on
Search(query, top_k) ==
    /\ arg.fn = "index"
    /\ ret' = [done |-> TRUE, query |-> query, top_k |-> top_k, index |-> arg.index,
               value |-> search(arg.index, query, top_k)]
    /\ UNCHANGED <<users, attempts, events, traces, reqs, nextRid, env, arg, returned>>

\* save: the file holds the dump
Save ==
    /\ arg.fn = "index"
    /\ arg' = [arg EXCEPT !.file = [exists |-> TRUE, data |-> PickleDump(arg.index)],
                          !.at_save = arg.index, !.reloaded = FALSE]
    /\ ret' = NoRet
    /\ UNCHANGED <<users, attempts, events, traces, reqs, nextRid, env, returned>>

\* load: the dicts are replaced if the file exists
Load ==
    /\ arg.fn = "index"
    /\ arg' = IF arg.file.exists
              THEN [arg EXCEPT !.index = PickleLoad(arg.file.data),
                               !.reloaded = (arg.index = arg.at_save)]
              ELSE arg
    /\ ret' = NoRet
    /\ UNCHANGED <<users, attempts, events, traces, reqs, nextRid, env, returned>>

NextIndex ==
    \/ \E id \in ChunkIds, content \in Texts : AddDocuments(<<Chunk(id, content)>>)
    \/ \E query \in Texts, top_k \in 0..MaxK : Search(query, top_k)

SpecIndex == InitIndex /\ [][NextIndex]_vars

NextStore ==
    \/ \E id \in ChunkIds, content \in Texts : AddDocuments(<<Chunk(id, content)>>)
    \/ Save
    \/ Load

SpecStore == InitIndex /\ [][NextStore]_vars

-----------------------------------------------------------------------------
(* Chunker: backend/services/chunker.py.  A text is given by its length and *)
(* by where its blanks are: character i (from 0) is a blank when i is a     *)
(* multiple of blank_every.  A window is kept as the slice bounds it was    *)
(* cut at and the length strip() leaves of it.                              *)

IsBlank(text, i) == text.blank_every > 0 /\ i % text.blank_every = 0

\* text[start:end] for end within the text: a negative start counts from the end
SliceFrom(text, start) ==
    IF start >= 0 THEN start
    ELSE IF text.len + start > 0 THEN text.len + start ELSE 0

\* len(text[start:end].strip())
StrippedLen(text, start, end) ==
    LET from == SliceFrom(text, start)
        kept == {i \in from..(end - 1) : ~IsBlank(text, i)}
    IN  IF kept = {} THEN 0
        ELSE (CHOOSE i \in kept : \A j \in kept : j <= i)
             - (CHOOSE i \in kept : \A j \in kept : i <= j) + 1

\* the configurations in use: the defaults, RAGManager's, and one without overlap
ChunkConfigs ==
    {[chunk_size |-> 300, chunk_overlap |-> 50],
     [chunk_size |-> 400, chunk_overlap |-> 50],
     [chunk_size |-> 300, chunk_overlap |-> 0]}

ChunkTexts ==
    {[len |-> l, blank_every |-> b] : l \in {0, 30, 51, 120, 300, 700}, b \in {0, 7}}

InitChunk ==
    /\ users = [u \in Users |-> NoUser]
    /\ attempts = <<>>
    /\ events = <<>>
    /\ traces = {}
    /\ reqs = [s \in Slots |-> Idle]
    /\ nextRid = 1
    /\ env = "reliable"
    /\ arg \in {[fn |-> "chunk_text", text |-> t, chunk_size |-> c.chunk_size,
                 chunk_overlap |-> c.chunk_overlap] :
                   t \in ChunkTexts, c \in ChunkConfigs}
    /\ ret = [done |-> FALSE, start |-> 0, chunks |-> <<>>]
    /\ returned = {}

\* one pass of the while loop
ChunkLoop ==
    /\ arg.fn = "chunk_text"
    /\ ~ret.done
    /\ ret.start < arg.text.len
    /\ Len(ret.chunks) < MaxChunks
    /\ LET end == Min(ret.start + arg.chunk_size, arg.text.len)
           chunk == [start |-> ret.start, end |-> end,
                     len |-> StrippedLen(arg.text, ret.start, end)]
       IN  ret' = [ret EXCEPT !.chunks = Append(@, chunk),
                              !.start = end - arg.chunk_overlap]
    /\ UNCHANGED <<users, attempts, events, traces, reqs, nextRid, env, arg, returned>>

\* the loop is left: the windows longer than 50 characters are returned
ChunkReturn ==
    /\ arg.fn = "chunk_text"
    /\ ~ret.done
    /\ ~(ret.start < arg.text.len)
    /\ ret' = [ret EXCEPT !.done = TRUE,
                          !.chunks = SelectSeq(@, LAMBDA c : c.len > min_chunk_len)]
    /\ UNCHANGED <<users, attempts, events, traces, reqs, nextRid, env, arg, returned>>

NextChunk == ChunkLoop \/ ChunkReturn

\* a call that is running keeps running
SpecChunk == InitChunk /\ [][NextChunk]_vars /\ WF_vars(NextChunk)

-----------------------------------------------------------------------------
(* Registration beside generate_quiz: routers/auth_router.py register_user. *)
(* arg holds the registration: its request, its place, and whether one of   *)
(* its statements ran while a generate_quiz call for the same user was      *)
(* under way.  The credentials file it writes last is not part of the       *)
(* Repository and is left out.                                              *)

verify_retries == 5

Registration(user_id, age) ==
    [fn |-> "register", pc |-> "create", user_id |-> user_id, name |-> "registrant",
     age |-> age, hobbies |-> "games", reads |-> 0, status |-> "",
     overlapped |-> FALSE]

\* a generate_quiz call for user u has started and has not answered yet
Generating(u) ==
    \E s \in Slots : /\ reqs[s].op = "generate"
                     /\ reqs[s].user_id = u
                     /\ reqs[s].pc \notin {"idle", "done"}

\* POST /register arrives
RegisterStart(u, age) ==
    /\ arg = NoArg
    /\ arg' = [Registration(u, age) EXCEPT !.overlapped = Generating(u)]
    /\ UNCHANGED <<users, attempts, events, traces, reqs, nextRid, env, ret, returned>>

\* success = database.create_user(user); `if not success: raise Exception`
RegisterCreate ==
    /\ arg.fn = "register"
    /\ arg.pc = "create"
    /\ LET success == ~Found(users[arg.user_id])
           o == arg.overlapped \/ Generating(arg.user_id)
       IN  /\ users' = create_user(users, User(arg.user_id, arg.name, arg.age,
                                               arg.hobbies))
           /\ arg' = IF success
                     THEN [arg EXCEPT !.pc = "verify", !.overlapped = o]
                     ELSE [arg EXCEPT !.pc = "done", !.status = "error",
                                      !.overlapped = o]
    /\ UNCHANGED <<attempts, events, traces, reqs, nextRid, env, ret, returned>>

\* one turn of the verification loop, and what follows it
RegisterVerify ==
    /\ arg.fn = "register"
    /\ arg.pc = "verify"
    /\ LET verify_user == get_user(users, arg.user_id)
           a == [arg EXCEPT !.reads = @ + 1,
                            !.overlapped = @ \/ Generating(arg.user_id)]
       IN  arg' = IF Found(verify_user)
                  THEN [a EXCEPT !.pc = "done", !.status = "success"]
                  ELSE IF a.reads < verify_retries THEN a
                  ELSE [a EXCEPT !.pc = "done", !.status = "error"]
    /\ UNCHANGED <<users, attempts, events, traces, reqs, nextRid, env, ret, returned>>

InitSignup == InitEnv("signup")

NextSignup ==
    \/ \E s \in Slots, u \in Users : StartGenerate(s, u)
    \/ \E s \in Slots : GenFetch(s)
    \/ \E s \in Slots : GenCreate(s)
    \/ \E s \in Slots : GenVerify(s)
    \/ \E s \in Slots : GenRag(s)
    \/ \E s \in Slots : GenDifficulty(s)
    \/ \E s \in Slots : GenStory(s)
    \/ \E s \in Slots : GenQuiz(s)
    \/ \E s \in Slots : Return(s)
    \/ \E u \in Users, age \in RegAges : RegisterStart(u, age)
    \/ RegisterCreate
    \/ RegisterVerify

SpecSignup == InitSignup /\ [][NextSignup]_vars

-----------------------------------------------------------------------------
(* Database.add_badge statement by statement.  The SELECT runs outside any  *)
(* transaction and the UPDATE commits the list the caller built from what   *)
(* it read, so the statements of two calls may alternate.  arg.calls holds  *)
(* one call per caller: its arguments, its place and its local list.        *)

BadgeNames == {"First Quiz Completed", "Perfect Score", "5-Quiz Streak"}

\* the user rows the calls find
BadgeUsers ==
    {[u \in Users |->
        IF u = "u1"
        THEN [User("u1", "registrant", 9, "games") EXCEPT !.badges = b]
        ELSE NoUser] : b \in {<<>>, <<"First Quiz Completed">>}}

BadgeCall(user_id, badge_name) ==
    [pc |-> "select", user_id |-> user_id, badge_name |-> badge_name,
     current_badges |-> <<>>, result |-> FALSE]

InitBadge ==
    /\ users \in BadgeUsers
    /\ attempts = <<>>
    /\ events = <<>>
    /\ traces = {}
    /\ reqs = [s \in Slots |-> Idle]
    /\ nextRid = 1
    /\ env = "reliable"
    /\ arg \in {[fn |-> "add_badge", calls |-> c] :
                   c \in [Slots -> {BadgeCall(u, b) : u \in Users, b \in BadgeNames}]}
    /\ ret = NoRet
    /\ returned = {}

\* SELECT badges FROM users WHERE user_id = ?; no row: row["badges"] raises
\* and the call answers False
AddBadgeSelect(s) ==
    LET c == arg.calls[s] IN
    /\ c.pc = "select"
    /\ arg' = [arg EXCEPT !.calls[s] =
                 IF Found(users[c.user_id])
                 THEN [c EXCEPT !.pc = "update",
                                !.current_badges = users[c.user_id].badges]
                 ELSE [c EXCEPT !.pc = "done", !.result = FALSE]]
    /\ UNCHANGED <<users, attempts, events, traces, reqs, nextRid, env, ret, returned>>

\* `if badge_name not in current_badges`: append, UPDATE users SET badges = ?,
\* commit; return True
AddBadgeUpdate(s) ==
    LET c == arg.calls[s] IN
    /\ c.pc = "update"
    /\ users' = IF ~InSeq(c.badge_name, c.current_badges)
                THEN [users EXCEPT ![c.user_id].badges =
                                      Append(c.current_badges, c.badge_name)]
                ELSE users
    /\ arg' = [arg EXCEPT !.calls[s] = [c EXCEPT !.pc = "done", !.result = TRUE]]
    /\ UNCHANGED <<attempts, events, traces, reqs, nextRid, env, ret, returned>>

NextBadge ==
    \/ \E s \in Slots : AddBadgeSelect(s)
    \/ \E s \in Slots : AddBadgeUpdate(s)

SpecBadge == InitBadge /\ [][NextBadge]_vars

-----------------------------------------------------------------------------
(* Claims *)

Done(q, op) == q.op = op /\ q.pc = "done"

\* the quiz_attempts rows written by request rid for user u
AttemptsOf(rid, u) ==
    {i \in 1..Len(attempts) : attempts[i].quiz_id = rid /\ attempts[i].user_id = u}

\* C1: for an existing user and non-empty question and answer lists,
\* evaluate_quiz returns success, and exactly one QuizAttempt of that request
\* is stored for the user, with one response record per submitted question.
C1_EvaluateStoresOneAttempt ==
    \A s \in Slots :
        LET q == reqs[s] IN
        (Done(q, "evaluate") /\ Found(q.user)
            /\ q.questions # <<>> /\ q.answers # <<>>)
        => /\ q.status = "success"
           /\ Cardinality(AttemptsOf(q.request_id, q.user_id)) = 1
           /\ \A i \in AttemptsOf(q.request_id, q.user_id) :
                Len(attempts[i].responses) = Len(q.questions)

\* C2: whatever the repository, the retrieval step, the generators or the
\* agents do, each of the four public operations returns a result tagged
\* success or error; no exception reaches the caller.
C2_TaggedResult ==
    \A s \in Slots :
        reqs[s].pc = "done"
        => /\ reqs[s].op \in {"generate", "evaluate", "stats", "traces"}
           /\ reqs[s].status \in {"success", "error"}

\* a repository call raised inside generate_quiz and the caller got an error result
C2_Witness ==
    \E s \in Slots :
        /\ Done(reqs[s], "generate")
        /\ reqs[s].error = "repository"
        /\ reqs[s].status = "error"
        /\ reqs[s].trace_steps = 3

GenerateAgents == {"RAGAgent", "DifficultyAgent", "StoryAgent", "QuizAgent"}

\* the step of generate_quiz that calls agent a
StepOfAgent(a) ==
    CASE a = "RAGAgent" -> 2
      [] a = "DifficultyAgent" -> 3
      [] a = "StoryAgent" -> 4
      [] a = "QuizAgent" -> 5

\* the step in which the exception with message msg arises: an agent's own
\* step, or step 1 for the missing user
RaisedAtStep(msg) == IF msg \in GenerateAgents THEN StepOfAgent(msg) ELSE 1

\* C3: an exception raised while generate_quiz executes step k (1..5): no agent
\* of a later step is invoked, a "failed" trace record with the error message
\* is stored for the request, and the error result has trace_steps = k.
C3_FailureAtStep ==
    \A s \in Slots :
        LET q == reqs[s] IN
        (Done(q, "generate") /\ q.status = "error")
        => LET k == RaisedAtStep(q.error) IN
           /\ q.trace_steps = k
           /\ \A a \in q.invoked : StepOfAgent(a) <= k
           /\ \E t \in traces : /\ t.request_id = q.request_id
                                /\ t.status = "failed"
                                /\ t.error_message = q.error
           /\ \A t \in traces :
                (t.request_id = q.request_id /\ t.status # "failed")
                => t.step_number <= k

\* the story agent raised in step 4 and the quiz agent was never called
C3_Witness ==
    \E s \in Slots :
        /\ Done(reqs[s], "generate")
        /\ reqs[s].status = "error"
        /\ reqs[s].error = "StoryAgent"
        /\ reqs[s].trace_steps = 4
        /\ reqs[s].invoked = {"RAGAgent", "DifficultyAgent", "StoryAgent"}

\* C4: after generate_quiz or evaluate_quiz returns success with
\* trace_steps = N, get_trace_logs(request id) holds a record for every step
\* 0..N and every record of a step 1..N has status completed.
C4_StepsCompleted ==
    \A s \in Slots :
        LET q == reqs[s] IN
        (q.pc = "done" /\ q.op \in {"generate", "evaluate"} /\ q.status = "success")
        => LET logs == get_trace_logs(traces, q.request_id) IN
           /\ \A k \in 0..q.trace_steps :
                \E i \in 1..Len(logs) : logs[i].step_number = k
           /\ \A i \in 1..Len(logs) :
                logs[i].step_number \in 1..q.trace_steps
                => logs[i].status = "completed"

C5_Reads ==
    \A s \in Slots :
        LET q == reqs[s] IN
        q.op = "generate"
        => /\ q.reads <= max_retries
           /\ (q.created \/ q.pc \in {"g_create", "g_verify"}) => q.reads = max_retries
           /\ (q.pc = "done" /\ q.status = "error" /\ q.trace_steps = 1)
              => (q.created /\ ~Found(q.user) /\ q.invoked = {})

C5_Step ==
    \A s \in Slots :
        LET q == reqs[s] IN
        /\ (q.op = "generate" /\ q.pc = "g_fetch" /\ reqs'[s].pc = "g_rag")
           => /\ Found(users[q.user_id])
              /\ reqs'[s].user = users[q.user_id]
              /\ ~reqs'[s].created
              /\ reqs'[s].reads \in 1..max_retries
              /\ users' = users
        /\ \A u \in Users :
             (~Found(users[u]) /\ Found(users'[u]) /\ users'[u].name = u)
             => \E w \in Slots : /\ reqs[w].op = "generate"
                                 /\ reqs[w].pc = "g_create"
                                 /\ reqs[w].user_id = u
                                 /\ reqs[w].reads = max_retries
                                 /\ users'[u].age = default_age

\* C5: generate_quiz reads the profile at most 3 times; the default profile
\* (age 10) is created only after all 3 reads found none; when a read finds
\* the user the pipeline continues with the stored profile and creates
\* nothing; the error result of step 1 arises only when the user is still
\* absent after the creation attempt.
C5_LookupAndFallback == [](C5_Reads) /\ [][C5_Step]_vars

\* three reads found nobody, the default profile was created and the quiz produced
C5_Witness ==
    \E s \in Slots :
        /\ Done(reqs[s], "generate")
        /\ reqs[s].status = "success"
        /\ reqs[s].created
        /\ reqs[s].reads = max_retries
        /\ reqs[s].user.age = default_age
        /\ reqs[s].user.name = reqs[s].user_id

C6_Result ==
    \A s \in Slots :
        LET q == reqs[s] IN
        (Done(q, "evaluate") /\ ~Found(q.user))
        => /\ q.status = "error"
           /\ q.reads = 1
           /\ q.invoked = {}

C6_Step ==
    \A s \in Slots :
        LET q == reqs[s] IN
        (q.op = "evaluate" /\ q.pc = "e_fetch" /\ ~Found(users[q.user_id])
            /\ reqs'[s] # q)
        => /\ reqs'[s].pc = "done"
           /\ reqs'[s].status = "error"
           /\ users' = users
           /\ attempts' = attempts
           /\ events' = events

\* C6: evaluate_quiz for a user id absent from the repository returns an
\* error after a single read, invokes neither the evaluator nor the reward
\* engine, and leaves users (points, levels, badges), attempts and events as
\* they were.
C6_AbsentUser == [](C6_Result) /\ [][C6_Step]_vars

\* a submission for an unknown user ended in the error result
C6_Witness ==
    \E s \in Slots :
        /\ Done(reqs[s], "evaluate")
        /\ ~Found(users[reqs[s].user_id])
        /\ reqs[s].status = "error"
        /\ reqs[s].error = "User not found"
        /\ reqs[s].questions # <<>>

\* the tier the score thresholds name for a percentage sc
TierByThreshold(sc) ==
    IF sc < 50 THEN "easy" ELSE IF sc < 80 THEN "medium" ELSE "hard"

\* C7: for an integer most-recent score s in 0..100 the recommender returns
\* easy when s < 50, medium when 50 <= s < 80 and hard when s >= 80; for an
\* empty history it returns medium, whatever the age.
C7_Thresholds ==
    (arg.fn = "difficulty" /\ ret.done)
    => ret.value = IF arg.quiz_history = <<>> THEN "medium"
                   ELSE TierByThreshold(arg.quiz_history[1])

\* the score of the attempt of user u stored last in table A (-1: none)
MostRecentScore(A, u) ==
    LET own == SelectSeqBy(A, u)
    IN  IF own = <<>> THEN -1 ELSE own[Len(own)].score

\* the quiz_attempts tables of up to MaxAttempts rows
AttemptTables ==
    SeqsUpTo({QuizAttempt(u, 0, sc, 5, 0, <<>>) : u \in Users, sc \in ScoreSamples},
             MaxAttempts)

C8_Step ==
    \A s \in Slots :
        LET q == reqs[s] IN
        (q.op = "generate" /\ q.pc = "g_difficulty" /\ reqs'[s].pc = "g_story")
        => \A A2 \in AttemptTables, age \in HarnessAges :
             MostRecentScore(A2, q.user_id) = MostRecentScore(attempts, q.user_id)
             => _recommend_difficulty(
                    Scores(get_user_quiz_history(A2, q.user_id, history_limit)), age)
                = reqs'[s].difficulty

\* C8: the tier generate_quiz recommends is a function of the score of the
\* user's most recent stored attempt alone: any attempts table, and any age,
\* with the same most recent score for the user yields the recommended tier.
C8_MostRecentAlone == [][C8_Step]_vars

\* a tier was recommended for a user whose older attempt lies in another tier
C8_Witness ==
    \E s \in Slots :
        LET own == SelectSeqBy(attempts, reqs[s].user_id) IN
        /\ reqs[s].op = "generate"
        /\ reqs[s].pc = "g_story"
        /\ Len(own) >= 2
        /\ own[Len(own)].score = 45
        /\ own[1].score = 85
        /\ reqs[s].difficulty = "easy"

\* a/b rounded to the nearest integer (a >= 0, b > 0)
Round(a, b) == (2 * a + b) \div (2 * b)

\* the answers that match, counted over the positions both lists have
Matching(questions, answers) ==
    {i \in 1..Min(Len(questions), Len(answers)) :
        answers[i] = questions[i].correct_answer}

\* C9: for non-empty lists the evaluator returns correct_count = the number of
\* matching answers, max_score = len(questions), percentage =
\* 100 * correct_count / len(questions) and score = the percentage rounded to
\* the nearest integer; an answer list shorter than the question list is fine.
C9_Score ==
    (arg.fn = "evaluate" /\ ret.done
        /\ arg.questions # <<>> /\ arg.answers # <<>>)
    => LET n == Len(arg.questions)
           c == Cardinality(Matching(arg.questions, arg.answers))
       IN  /\ ret.value.status = "success"
           /\ ret.value.correct_count = c
           /\ ret.value.max_score = n
           /\ FracEQ(ret.value.percentage, 100 * c, n)
           /\ ret.value.score = Round(100 * c, n)

\* C10: for an existing user and an empty question or answer list the
\* evaluator returns the error "Missing questions or answers", evaluate_quiz
\* reports an error, the reward engine is not invoked and nothing is recorded.
C10_EmptySubmission ==
    \A s \in Slots :
        LET q == reqs[s] IN
        (Done(q, "evaluate") /\ Found(q.user)
            /\ (q.questions = <<>> \/ q.answers = <<>>))
        => /\ q.eval.status = "error"
           /\ q.eval.error = "Missing questions or answers"
           /\ q.status = "error"
           /\ "GamificationAgent" \notin q.invoked
           /\ AttemptsOf(q.request_id, q.user_id) = {}
           /\ q.user = users[q.user_id]

Max(a, b) == IF a >= b THEN a ELSE b

\* C11: for every percentage p in 0..100 a quiz_completed event earns 60
\* points when p = 100, 30 when 80 <= p < 100, 20 when 60 <= p < 80 and 10
\* otherwise; a badge_earned event earns 100 and a daily_streak event 50.
C11_PointPolicy ==
    (arg.fn = "points" /\ ret.done)
    => LET p == arg.quiz_score IN
       /\ arg.event_type = "quiz_completed"
          => ret.value = IF FracEQ(p, 100, 1) THEN 60
                         ELSE IF ~FracLT(p, 80, 1) THEN 30
                         ELSE IF ~FracLT(p, 60, 1) THEN 20
                         ELSE 10
       /\ arg.event_type = "badge_earned" => ret.value = 100
       /\ arg.event_type = "daily_streak" => ret.value = 50

\* a perfect quiz was rewarded with base and perfect bonus only
C11_Witness ==
    /\ arg.fn = "points"
    /\ arg.event_type = "quiz_completed"
    /\ FracEQ(arg.quiz_score, 100, 1)
    /\ ret.done
    /\ ret.value = 60

\* C12: for every new point total t >= 0 and current level L >= 1 the reward
\* engine returns the level max(L, floor(t / 500) + 1), and leveled_up is true
\* exactly when that level is greater than L; the level stays L while
\* t < 500 * L.
C12_LevelPolicy ==
    (arg.fn = "level" /\ ret.done)
    => LET t == arg.total_points
           L == arg.current_level
       IN  /\ ret.value.new_level = Max(L, (t \div 500) + 1)
           /\ ret.value.leveled_up <=> (ret.value.new_level > L)
           /\ t < 500 * L => ret.value.new_level = L

\* a total below the threshold of a level above 1 left the level as it was
C12_Witness ==
    /\ arg.fn = "level"
    /\ arg.current_level = 3
    /\ arg.total_points = 700
    /\ ret.done
    /\ ret.value.new_level = 3
    /\ ~ret.value.leveled_up

\* the badges granted at a count of completed quizzes
MilestoneBadges ==
    {"First Quiz Completed", "5-Quiz Streak", "Curious Mind", "Financial Pro"}

\* the evaluate_quiz results so far: those handed back and those just computed
EvaluateResults ==
    returned \cup {Result(reqs[s]) : s \in {w \in Slots : Done(reqs[w], "evaluate")}}

NoDuplicates(seq) == \A i, j \in 1..Len(seq) : seq[i] = seq[j] => i = j

C14_Level == \A u \in Users : Found(users[u]) => users[u].level >= 1

C14_Step ==
    \A u \in Users :
        Found(users[u])
        => /\ Found(users'[u])
           /\ users'[u].points >= users[u].points
           /\ users'[u].level >= users[u].level
           /\ \A i \in 1..Len(users[u].badges) :
                InSeq(users[u].badges[i], users'[u].badges)

GaveNothing(outcome) ==
    outcome.kind # "questions" \/ Validated(outcome.questions, num_questions) = <<>>

\* C17: when the PDF generator and Gemini both fail or return nothing, the
\* generate_quiz call that reached the question step returns success with a
\* non-empty list of questions of the template bank.
C17_TemplateFallback ==
    \A s \in Slots :
        LET q == reqs[s] IN
        (Done(q, "generate") /\ q.generation.source # ""
            /\ GaveNothing(q.generation.pdf) /\ GaveNothing(q.generation.gemini))
        => /\ q.status = "success"
           /\ q.questions # <<>>
           /\ \A i \in 1..Len(q.questions) : q.questions[i].question \in TemplateTexts

\* the question's text is one the user has answered correctly
AlreadyAnswered(q, answered) ==
    \E i \in 1..Len(answered) : answered[i].question = q.question

\* the questions a path starts from: the PDF generator's, the valid ones of
\* the Gemini reply, or the template bank
GeneratedSet(q) ==
    IF q.generation.source = "PDF" THEN q.generation.pdf.questions
    ELSE IF q.generation.source = "Gemini"
    THEN Validated(q.generation.gemini.questions, num_questions)
    ELSE QuestionBank(q.difficulty)

\* C18: on every question-generation path no delivered question has a text
\* the user already answered correctly, unless every generated question has
\* such a text.
C18_AnsweredRemoved ==
    \A s \in Slots :
        LET q == reqs[s] IN
        (Done(q, "generate") /\ q.generation.source # ""
            /\ \E i \in 1..Len(GeneratedSet(q)) :
                 ~AlreadyAnswered(GeneratedSet(q)[i], q.generation.answered))
        => \A i \in 1..Len(q.questions) :
             ~AlreadyAnswered(q.questions[i], q.generation.answered)

TracesOf(rid) == {t \in traces : t.request_id = rid}

ScoreOf(index, query, id) ==
    _cosine_similarity(_simple_embedding(query), DictGet(index.vectors, id))

\* the place of an id in the index, by insertion
PlaceOf(index, id) == CHOOSE i \in 1..Len(index.vectors) : index.vectors[i].key = id

\* C21: search(query, k) on an index of n entries returns min(k, n) entries
\* (none on an empty index), by score descending, equal scores in insertion
\* order, and no entry left out scores higher than a returned one.
C21_TopK ==
    (arg.fn = "index" /\ ret.done)
    => LET n == Len(ret.index.vectors)
           r == ret.value
           ids == {r[i].id : i \in 1..Len(r)}
       IN  /\ Len(r) = Min(ret.top_k, n)
           /\ \A i \in 1..Len(r) :
                /\ DictHas(ret.index.vectors, r[i].id)
                /\ r[i].similarity_score = ScoreOf(ret.index, ret.query, r[i].id)
           /\ \A i, j \in 1..Len(r) :
                i < j => /\ r[i].id # r[j].id
                         /\ ~ScoreLess(r[i].similarity_score, r[j].similarity_score)
                         /\ (~ScoreLess(r[j].similarity_score, r[i].similarity_score)
                             => PlaceOf(ret.index, r[i].id) < PlaceOf(ret.index, r[j].id))
           /\ \A i \in 1..n : \A j \in 1..Len(r) :
                ret.index.vectors[i].key \notin ids
                => ~ScoreLess(r[j].similarity_score,
                              ScoreOf(ret.index, ret.query, ret.index.vectors[i].key))

\* a search with k below n over entries that tie: the first inserted is
\* returned and the other left out
C21_Witness ==
    /\ arg.fn = "index" /\ ret.done
    /\ Len(ret.index.vectors) = 2 /\ ret.top_k = 1 /\ Len(ret.value) = 1
    /\ ret.value[1].similarity_score.num > 0
    /\ ~ScoreLess(ScoreOf(ret.index, ret.query, ret.index.vectors[2].key),
                  ret.value[1].similarity_score)
    /\ ret.value[1].id = ret.index.vectors[1].key

C23_Terminates == <>(ret.done)

\* C24: every question generate_quiz delivers, whichever path produced it,
\* has exactly 4 options and a correct_answer index from 0 to 3.
C24_FourOptions ==
    \A s \in Slots :
        LET q == reqs[s] IN
        Done(q, "generate")
        => \A i \in 1..Len(q.questions) :
             /\ Len(q.questions[i].options) = 4
             /\ q.questions[i].correct_answer \in 0..3


C26_LevelProgress ==
    (arg.fn = "progress" /\ ret.done
       /\ arg.current_level = (arg.total_points \div 500) + 1)
    => LET t == arg.total_points
           L == arg.current_level
       IN  /\ ret.value.points_in_level = t - 500 * (L - 1)
           /\ ret.value.points_in_level \in 0..499
           /\ ret.value.points_needed = 500 * L - t

C28_BadgesKept ==
    (arg.fn = "add_badge" /\ \A s \in Slots : arg.calls[s].pc = "done")
    => \A s \in Slots :
          arg.calls[s].result
          => InSeq(arg.calls[s].badge_name, users[arg.calls[s].user_id].badges)

\* C29: when a registration of user U and a generateQuiz(U) request have
\* overlapped and both have finished, the registration has reported success
\* and the profile stored for U is the registered one, not the default
\* profile (name = user id, age 10)
C29_RegisteredProfileWins ==
    (/\ arg.fn = "register"
     /\ arg.pc = "done"
     /\ arg.overlapped
     /\ \E s \in Slots : Done(reqs[s], "generate") /\ reqs[s].user_id = arg.user_id)
    => /\ arg.status = "success"
       /\ users[arg.user_id] = User(arg.user_id, arg.name, arg.age, arg.hobbies)

\* the terminal records of a request: the Orchestrator's final "completed"
\* record and its "failed" records
Terminal(rid) ==
    {t \in TracesOf(rid) :
        t.agent_name = "Orchestrator" /\ t.status \in {"completed", "failed"}}

\* what an operation answered that left the terminal record t
AnswerOf(t) == IF t.status = "completed" THEN "success" ELSE "error"

\* at most one terminal record, written last, and agreeing with the answer of
\* the call (while a slot holds it) and with the result handed back
TerminalAgrees(rid) ==
    /\ Cardinality(Terminal(rid)) <= 1
    /\ \A t \in Terminal(rid) :
          /\ \A x \in TracesOf(rid) : x.step_number <= t.step_number
          /\ \A s \in Slots :
                (reqs[s].op \in {"generate", "evaluate"} /\ reqs[s].request_id = rid)
                => reqs[s].pc = "done" /\ reqs[s].status = AnswerOf(t)
          /\ \A r \in returned : r.request_id = rid => r.status = AnswerOf(t)

\* C30: the trace records of a request id hold at most one terminal
\* Orchestrator record, the final "completed" record only if the operation
\* answered success or a "failed" record only if it answered error, and once
\* it is stored no record of that request is written
C30_OneTerminalRecord ==
    /\ [](\A rid \in 1..nextRid : TerminalAgrees(rid))
    /\ [][\A rid \in 1..nextRid :
             Terminal(rid) # {}
             => {t \in traces' : t.request_id = rid} = TracesOf(rid)]_vars

\* an evaluate_quiz call whose reward agent raised has answered error and left
\* one failed record above its step records
C30_Witness ==
    \E s \in Slots :
       /\ Done(reqs[s], "evaluate")
       /\ reqs[s].status = "error"
       /\ reqs[s].step = 3
       /\ \E t \in Terminal(reqs[s].request_id) :
             t.status = "failed" /\ t.step_number = 4
       /\ Cardinality(TracesOf(reqs[s].request_id)) >= 4

====
